---- MODULE Spec2Model ----
(***************************************************************************)
(* The request middleware pipeline of greenlight-api (cmd/api):            *)
(* recoverPanic -> rateLimit -> authenticate -> router, with the per-client *)
(* token-bucket registry of rateLimit and its background eviction sweep.    *)
(*                                                                         *)
(* Time is a discrete clock of ticks (TicksPerSecond ticks per second).    *)
(* Token counts are the float64 counts of golang.org/x/time/rate held as   *)
(* exact multiples of 1/TicksPerSecond token: one token is OneToken units, *)
(* and a limiter of rate rps gains rps units per tick.  Floating-point     *)
(* rounding is not modelled.                                               *)
(***************************************************************************)
EXTENDS Integers, Sequences, FiniteSets, TLC

\* ------------------------------------------------------------- bounds --
MaxReqs == 5          \* requests in one behaviour
MaxConc == 3          \* requests of the concurrent specifications
MaxChain == 2         \* requests of SpecChain
MaxBurst == 2         \* config.limiter.burst ranges over 1..MaxBurst
MaxRps == 2           \* config.limiter.rps ranges over 1..MaxRps
TicksPerSecond == 2   \* resolution of the clock
MaxTicks == 2         \* single ticks that pass after a whole minute
MaxMinutes == 3       \* the clock stops at MaxMinutes minutes (+ MaxTicks)
MaxCalls == 3         \* WriteHeader and Write calls on one metricsResponseWriter
MaxSignals == 2       \* signals sent to the process while serve() runs

\* -------------------------------------------------- program constants --
SleepMinutes == 1     \* time.Sleep(time.Minute)
EvictMinutes == 3     \* time.Since(client.lastSeen) > 3*time.Minute
StatusTooManyRequests == 429
StatusInternalServerError == 500
StatusUnauthorized == 401
StatusForbidden == 403
StatusOK == 200
TokenLen == 26        \* len(tokenPlaintext) == 26

Minute == 60 * TicksPerSecond
OneToken == TicksPerSecond

Reqs == 1..MaxReqs
IPs == {"a", "b"}

Min(x, y) == IF x < y THEN x ELSE y

VARIABLES
    config,    \* app.config.limiter: [enabled, rps, burst]
    chain,     \* the handler routes() returned: stage names, outermost first
    now,       \* the wall clock, in ticks
    mu,        \* rateLimit's sync.Mutex: TRUE when locked
    clients,   \* rateLimit's map[string]*client
    sweeper,   \* the eviction goroutine: [pc, wakeAt, todo, since]
    req,       \* the request goroutines
    log,       \* the rate-limit decisions, in the order they were taken
    expvars,   \* the expvar variables of metrics: [received, sent, micros,
               \* byStatus]
    serving,   \* serve(): its goroutines, the quit channel, the results
    mailer     \* one call of Mailer.Send: [pc, build, errs, err, sleeps, ret]

vars == <<config, chain, now, mu, clients, sweeper, req, log, expvars, serving,
          mailer>>

\* ------------------------------------------ golang.org/x/time/rate ----
\* The zero time.Time of a limiter that has never been used and of a
\* client whose lastSeen has not been set yet: older than every clock value.
ZeroTime == 0 - (MaxMinutes + 1) * Minute

\* rate.NewLimiter(rate.Limit(rps), burst): a bucket of burst tokens, full.
NewLimiter(rps, burst) ==
    [limit |-> rps, burst |-> burst, tokens |-> burst * OneToken, last |-> ZeroTime]

\* Mutant of Advance: the refill is not capped at burst.
AdvanceUncapped(lim, t) ==
    LET last == IF t < lim.last THEN t ELSE lim.last
        elapsed == t - last
    IN  lim.tokens + elapsed * lim.limit

\* Limiter.advance: the token count at time t, the refill capped at burst.
Advance(lim, t) ==
    LET last == IF t < lim.last THEN t ELSE lim.last
        elapsed == t - last
    IN  Min(lim.burst * OneToken, lim.tokens + elapsed * lim.limit)

\* Mutant of Allow: an event is allowed while the count is above -1 token.
AllowAtZero(lim, t) ==
    LET tokens == Advance(lim, t) - OneToken
        ok == lim.burst >= 1 /\ tokens >= 0 - OneToken
    IN  [ok |-> ok,
         lim |-> IF ok THEN [lim EXCEPT !.tokens = tokens, !.last = t] ELSE lim]

\* Mutant of Allow: a denial restarts the refill from an empty bucket.
AllowDenialResets(lim, t) ==
    LET tokens == Advance(lim, t) - OneToken
        ok == lim.burst >= 1 /\ tokens >= 0
    IN  [ok |-> ok,
         lim |-> IF ok THEN [lim EXCEPT !.tokens = tokens, !.last = t]
                       ELSE [lim EXCEPT !.tokens = 0, !.last = t]]

\* Limiter.Allow() at time t: [ok, lim], the limiter debited by one token
\* when the event is allowed and left as it was when it is not.
Allow(lim, t) ==
    LET tokens == Advance(lim, t) - OneToken
        ok == lim.burst >= 1 /\ tokens >= 0
    IN  [ok |-> ok,
         lim |-> IF ok THEN [lim EXCEPT !.tokens = tokens, !.last = t] ELSE lim]

\* Limiter.Tokens(): the tokens available at time t.
Tokens(lim, t) == Advance(lim, t)

\* ------------------------------------------------------- strings ------
\* A string is the sequence of its characters.
Rep(c, n) == [k \in 1..n |-> c]
SP == " "
Bearer == <<"B", "e", "a", "r", "e", "r">>
Basic == <<"B", "a", "s", "i", "c">>

\* strings.Split(s, " "): the substrings between the spaces; always at least
\* one part, and an empty part where two spaces meet or s starts or ends
\* with one.
RECURSIVE SplitFrom(_, _, _)
SplitFrom(s, k, cur) ==
    IF k > Len(s) THEN <<cur>>
    ELSE IF s[k] = SP THEN <<cur>> \o SplitFrom(s, k + 1, <<>>)
    ELSE SplitFrom(s, k + 1, Append(cur, s[k]))

Split(s) == SplitFrom(s, 1, <<>>)

\* The Authorization headers requests are sent with.
NoHeader == <<>>
KnownToken == Rep("k", TokenLen)       \* resolves to an activated user
InactiveToken == Rep("i", TokenLen)    \* resolves to a user not yet activated
UnknownToken == Rep("u", TokenLen)     \* not in the token store
ShortToken == Rep("k", TokenLen - 1)
BearerHeader(token) == Bearer \o <<SP>> \o token
BasicHeader == Basic \o <<SP>> \o <<"x", "y", "z">>

\* ------------------------------------------------- response writer ----
\* The http.ResponseWriter of one request: hconn is whether the header map
\* holds Connection: close, wire the status line sent to the client (0 while
\* none is sent), close whether Connection: close was among the headers
\* sent, writes the number of WriteHeader calls, body what was written.
NewResponse ==
    [hconn |-> FALSE, wire |-> 0, close |-> FALSE, writes |-> 0, body |-> <<>>]

\* w.WriteHeader(status): the first call sends the status line and the
\* header map as it is then; a later call is superfluous and sends nothing.
WriteHeader(w, status) ==
    IF w.wire = 0
    THEN [w EXCEPT !.wire = status, !.close = w.hconn, !.writes = w.writes + 1]
    ELSE [w EXCEPT !.writes = w.writes + 1]

\* w.Write(b): sends the status line first (200) when none was sent.
Write(w, b) ==
    LET h == IF w.wire = 0 THEN [w EXCEPT !.wire = StatusOK, !.close = w.hconn]
                           ELSE w
    IN  [h EXCEPT !.body = Append(h.body, b)]

\* app.writeJSON(w, status, data, nil): w.WriteHeader(status); w.Write(js).
writeJSON(w, status, message) == Write(WriteHeader(w, status), message)

\* The error helpers of cmd/api/errors.go, each a writeJSON of its status
\* and message.
rateLimitExceededResponse(w) ==
    writeJSON(w, StatusTooManyRequests, "rate limit exceeded")
serverErrorResponse(w) ==
    writeJSON(w, StatusInternalServerError, "server error")
invalidCredentialsResponse(w) ==
    writeJSON(w, StatusUnauthorized, "invalid credentials")
invalidAuthenticationTokenResponse(w) ==
    writeJSON(w, StatusUnauthorized, "invalid token")
authenticationRequiredResponse(w) ==
    writeJSON(w, StatusUnauthorized, "authentication required")
inactiveAccountResponse(w) ==
    writeJSON(w, StatusForbidden, "inactive account")

\* ------------------------------------------------------ principals ----
NoUser == [id |-> "unset", activated |-> FALSE]          \* no context value
AnonymousUser == [id |-> "anonymous", activated |-> FALSE]
NotFound == [id |-> "notfound", activated |-> FALSE]     \* ErrRecordNotFound

\* app.models.Users.GetForToken(data.ScopeAuthentication, token) on the
\* token store of the model: two tokens resolve, every other is not found.
GetForToken(token) ==
    IF token = KnownToken THEN [id |-> "alice", activated |-> TRUE]
    ELSE IF token = InactiveToken THEN [id |-> "bob", activated |-> FALSE]
    ELSE NotFound

\* An activated user that holds no permission (known to the model only).
Carol == [id |-> "carol", activated |-> TRUE]

\* PermissionModel.GetAllForuser(user.ID): the codes the store holds.
GetAllForuser(id) == IF id = "alice" THEN <<"movies:read">> ELSE <<>>

\* Permissions.Include: slices.Contains(p, code).
Include(p, code) == \E k \in 1..Len(p) : p[k] = code

\* Mutant of ValidTokenPlaintext: any token that is provided passes.
ValidTokenPlaintextProvided(token) == token # <<>>

\* data.ValidateTokenPlaintext followed by v.Valid().
ValidTokenPlaintext(token) == token # <<>> /\ Len(token) = TokenLen

\* ------------------------------------------------------- the chain ----
\* Mutant of rateLimit: the enabled flag is not looked at.
rateLimitAlways(cfg, next) == <<"rateLimit">> \o next

\* routes(): app.recoverPanic(app.rateLimit(app.authenticate(router))).
\* rateLimit(next) returns next itself when the limiter is disabled.
rateLimit(cfg, next) == IF ~cfg.enabled THEN next ELSE <<"rateLimit">> \o next
authenticate(next) == <<"authenticate">> \o next
recoverPanic(next) == <<"recoverPanic">> \o next
metrics(next) == <<"metrics">> \o next
enableCORS(next) == <<"enableCORS">> \o next
router == <<"router">>

\* Mutant of routes: authentication wraps rate limiting.
routesAuthFirst(cfg) == recoverPanic(authenticate(rateLimit(cfg, router)))

routes(cfg) == recoverPanic(rateLimit(cfg, authenticate(router)))

\* The response headers enableCORS deals with, each the list of its values
\* in the header map (none: the header is not set).
NoCors == [vary |-> <<>>, acao |-> <<>>, acam |-> <<>>, acah |-> <<>>]

\* for i := range trustedOrigins { if origin == trustedOrigins[i] {...; break} }:
\* the index the loop stops at, 0 when it runs to the end.
RECURSIVE FirstMatch(_, _, _)
FirstMatch(trusted, origin, k) ==
    IF k > Len(trusted) THEN 0
    ELSE IF trusted[k] = origin THEN k
    ELSE FirstMatch(trusted, origin, k + 1)

\* Mutant of corsHeaders: every OPTIONS request of a trusted origin counts
\* as a preflight.
corsHeadersAnyOptions(trusted, r) ==
    LET h0 == [NoCors EXCEPT !.vary = <<"Origin", "Access-Control-Request-Method">>]
        k == FirstMatch(trusted, r.origin, 1)
    IN  IF r.origin # "" /\ k # 0
        THEN LET h1 == [h0 EXCEPT !.acao = <<r.origin>>]
             IN  IF r.method = "OPTIONS"
                 THEN [h1 EXCEPT !.acam = <<"OPTIONS, PUT, PATCH, DELETE">>,
                                 !.acah = <<"Authorization, Content-Type">>]
                 ELSE h1
        ELSE h0

\* The headers the handler of enableCORS has set when it calls next.
corsHeaders(trusted, r) ==
    LET h0 == [NoCors EXCEPT !.vary = <<"Origin", "Access-Control-Request-Method">>]
        k == FirstMatch(trusted, r.origin, 1)
    IN  IF r.origin # "" /\ k # 0
        THEN LET h1 == [h0 EXCEPT !.acao = <<r.origin>>]
             IN  IF r.method = "OPTIONS" /\ r.acrm # ""
                 THEN [h1 EXCEPT !.acam = <<"OPTIONS, PUT, PATCH, DELETE">>,
                                 !.acah = <<"Authorization, Content-Type">>]
                 ELSE h1
        ELSE h0

\* The request the server hands to the chain.  user is the value under
\* userContextKey of the request the running stage holds (NoUser: none),
\* server the value the context held before the chain ran, orig the context
\* of the request as the server and the outer stages still hold it.
IdleReq ==
    [pc |-> "idle", ip |-> "", hdr |-> <<>>, route |-> "", depth |-> 0,
     deferred |-> FALSE, found |-> FALSE, decision |-> "none", user |-> NoUser,
     nextCalls |-> 0, lookups |-> 0, handlerRuns |-> 0, panicAt |-> "",
     recovered |-> 0, w |-> NewResponse,
     server |-> "srv", orig |-> [user |-> NoUser, server |-> "srv"],
     authNext |-> 0, err |-> "nil",
     metered |-> FALSE, start |-> 0, mw |-> [statusCode |-> 0, headerWritten |-> FALSE], counted |-> 0,
     origin |-> "", method |-> "GET", acrm |-> "", cors |-> NoCors,
     corsNext |-> 0]

\* The stage returns: every enclosing handler returns after it, and the
\* deferred function of recoverPanic finds recover() nil; the handler of
\* metrics, when the chain has one, goes on after its next.ServeHTTP.
Return(r) == [r EXCEPT !.pc = IF r.metered THEN "mx_sent" ELSE "done"]

\* The place of a stage in the chain (0: the chain has no such stage).
StageAt(name) ==
    IF \E d \in 1..Len(chain) : chain[d] = name
    THEN CHOOSE d \in 1..Len(chain) : chain[d] = name
    ELSE 0

\* Mutant of AfterRecover: the handler of metrics goes on after a panic of
\* its next.ServeHTTP wherever recoverPanic stands.
AfterRecoverResumes(r) == IF r.metered THEN "mx_sent" ELSE "done"

\* Where a request goes on when the deferred function of recoverPanic has
\* run: recoverPanic's handler returns, to the handler of metrics when that
\* one is further out; a handler of metrics between recoverPanic and the
\* panic was unwound, the statements after its next.ServeHTTP do not run.
AfterRecover(r) ==
    IF r.metered /\ StageAt("metrics") < StageAt("recoverPanic")
    THEN "mx_sent" ELSE "done"

\* A panic unwinds to the deferred function of recoverPanic when the chain
\* has one around the panicking stage; without one net/http aborts the
\* connection and no response is written.
Panic(r, stage) ==
    IF r.deferred THEN [r EXCEPT !.pc = "rp_recover", !.panicAt = stage]
    ELSE [r EXCEPT !.pc = "aborted", !.panicAt = stage]

\* The route handler starts.
RunHandler(r) == [r EXCEPT !.pc = "rt_handler", !.handlerRuns = r.handlerRuns + 1]

\* What contextGetUser yields where the code panics.
Panicked == [id |-> "panic", activated |-> FALSE]

\* Mutant of contextGetUser: a missing principal reads as the anonymous one.
contextGetUserDefault(r) == IF r.user = NoUser THEN AnonymousUser ELSE r.user

\* app.contextGetUser(r): the value under userContextKey, or a panic.
contextGetUser(r) == IF r.user = NoUser THEN Panicked ELSE r.user

\* user.IsAnonymous()
IsAnonymous(user) == user = AnonymousUser

\* Mutant of activatedFn: an inactive account is let through.
activatedFnLax(r) ==
    IF contextGetUser(r) = Panicked THEN Panic(r, "contextGetUser")
    ELSE RunHandler(r)

\* Mutant of activatedFn: no return after the 403, the handler runs too.
activatedFnGoesOn(r) ==
    LET user == contextGetUser(r)
    IN  IF user = Panicked THEN Panic(r, "contextGetUser")
        ELSE IF ~user.activated
        THEN RunHandler([r EXCEPT !.w = inactiveAccountResponse(r.w)])
        ELSE RunHandler(r)

\* fn of requireActivatedUser: the activation check in front of the handler.
activatedFn(r) ==
    LET user == contextGetUser(r)
    IN  IF user = Panicked THEN Panic(r, "contextGetUser")
        ELSE IF ~user.activated
        THEN Return([r EXCEPT !.w = inactiveAccountResponse(r.w)])
        ELSE RunHandler(r)

\* Mutant of requireAuthenticatedUser: the anonymous principal passes.
requireAuthenticatedUserLax(r, next) ==
    IF contextGetUser(r) = Panicked THEN Panic(r, "contextGetUser")
    ELSE IF next = "fn" THEN activatedFn(r) ELSE RunHandler(r)

\* requireAuthenticatedUser(next), next being fn of requireActivatedUser
\* ("fn") or a route handler ("handler").
requireAuthenticatedUser(r, next) ==
    LET user == contextGetUser(r)
    IN  IF user = Panicked THEN Panic(r, "contextGetUser")
        ELSE IF IsAnonymous(user)
        THEN Return([r EXCEPT !.w = authenticationRequiredResponse(r.w)])
        ELSE IF next = "fn" THEN activatedFn(r) ELSE RunHandler(r)

\* Mutant of requireActivatedUser: the activation check runs first.
requireActivatedUserSwapped(r) ==
    LET user == contextGetUser(r)
    IN  IF user = Panicked THEN Panic(r, "contextGetUser")
        ELSE IF ~user.activated
        THEN Return([r EXCEPT !.w = inactiveAccountResponse(r.w)])
        ELSE requireAuthenticatedUser(r, "handler")

\* requireActivatedUser(next) = requireAuthenticatedUser(fn)
requireActivatedUser(r) == requireAuthenticatedUser(r, "fn")

\* requirePermission(code, next): the permission check is commented out,
\* what is returned is requireActivatedUser(next).
requirePermission(code, r) == requireActivatedUser(r)

\* The permission code of the routes registered with requirePermission.
MoviesRead == "movies:read"

\* router.ServeHTTP: the route's handler is called, a bare handler on the
\* open routes, requireActivatedUser(handler) on the movie routes; "authed"
\* and "perm" are routes registered with requireAuthenticatedUser(handler)
\* and requirePermission(code, handler).
Dispatch(r) ==
    IF r.route = "movies" THEN requireActivatedUser(r)
    ELSE IF r.route = "authed" THEN requireAuthenticatedUser(r, "handler")
    ELSE IF r.route = "perm" THEN requirePermission(MoviesRead, r)
    ELSE RunHandler(r)

\* next.ServeHTTP(w, r) on stage d of the chain ch.  recoverPanic's handler
\* installs its deferred function and calls its own next at once; the
\* handler of enableCORS sets its headers and calls its next.
RECURSIVE Enter(_, _, _)
Enter(ch, r, d) ==
    IF ch[d] = "recoverPanic"
    THEN Enter(ch, [r EXCEPT !.deferred = TRUE], d + 1)
    ELSE IF ch[d] = "rateLimit" THEN [r EXCEPT !.depth = d, !.pc = "rl_lock"]
    ELSE IF ch[d] = "authenticate" THEN [r EXCEPT !.depth = d, !.pc = "au_header"]
    ELSE IF ch[d] = "metrics" THEN [r EXCEPT !.depth = d, !.pc = "mx_recv"]
    ELSE IF ch[d] = "enableCORS"
    THEN Enter(ch, [r EXCEPT !.cors = corsHeaders(config.trusted, r),
                             !.corsNext = r.corsNext + 1], d + 1)
    ELSE Dispatch([r EXCEPT !.depth = d])

\* ----------------------------------------------------------- state ----
\* expvar.NewInt (0) and expvar.NewMap (no key), made when metrics builds
\* its handler.
NewExpvars ==
    [received |-> 0, sent |-> 0, micros |-> 0, byStatus |-> [k \in {} |-> 0]]

\* expvar.Map.Add(key, delta): a key not yet there starts from 0.
MapAdd(mp, key, delta) ==
    [k \in DOMAIN mp \cup {key} |->
        (IF k \in DOMAIN mp THEN mp[k] ELSE 0) + (IF k = key THEN delta ELSE 0)]

\* newMetricsResponseWriter(w): statusCode 200, headerWritten false; the
\* wrapped writer is the w of the request.
newMetricsResponseWriter == [statusCode |-> StatusOK, headerWritten |-> FALSE]

\* Mutant of mwWriteHeader: every call records its status.
mwWriteHeaderLast(mw, w, statusCode) ==
    [w |-> WriteHeader(w, statusCode),
     mw |-> [mw EXCEPT !.statusCode = statusCode, !.headerWritten = TRUE]]

\* (mw *metricsResponseWriter) WriteHeader(statusCode): the wrapper mw and
\* the writer w it wraps, after the call.
mwWriteHeader(mw, w, statusCode) ==
    [w |-> WriteHeader(w, statusCode),
     mw |-> IF ~mw.headerWritten
            THEN [mw EXCEPT !.statusCode = statusCode, !.headerWritten = TRUE]
            ELSE mw]

\* (mw *metricsResponseWriter) Write(b)
mwWrite(mw, w, b) ==
    [w |-> Write(w, b), mw |-> [mw EXCEPT !.headerWritten = TRUE]]

\* mw.Header().Set("Connection", "close"): Header() returns the header map
\* of the wrapped writer.
mwHeaderSet(mw, w) == [w |-> [w EXCEPT !.hconn = TRUE], mw |-> mw]

\* time.Duration.Microseconds() of one tick of the clock.
MicrosPerTick == 1000000 \div TicksPerSecond

Configs == [enabled : BOOLEAN, rps : 1..MaxRps, burst : 1..MaxBurst]

NoClients == [k \in {} |-> 0]

\* clients[key] = c
Put(m, key, c) == [k \in DOMAIN m \cup {key} |-> IF k = key THEN c ELSE m[k]]
\* delete(clients, key)
Delete(m, key) == [k \in DOMAIN m \ {key} |-> m[k]]

\* serve() has not been called: no goroutine of it runs, quit is empty, no
\* signal was sent to the process.
NewServe ==
    [main |-> "idle", sig |-> "idle", quit |-> <<>>, signals |-> 0,
     caught |-> "none", shutdown |-> "none", las |-> "unset", ret |-> "unset"]

\* Mailer.Send has not been called: no step of building the message is
\* done, no delivery was attempted.
NewSend == [pc |-> "idle", build |-> 0, errs |-> <<>>, err |-> "unset",
            sleeps |-> 0, ret |-> "unset"]

\* rateLimit(next) builds mu and clients and starts the sweep goroutine,
\* unless the limiter is disabled: then it returns before any of that.
InitFor(cfg) ==
    /\ config = cfg
    /\ chain = routes(cfg)
    /\ now = 0
    /\ mu = FALSE
    /\ clients = NoClients
    /\ sweeper = [pc |-> IF cfg.enabled THEN "sleep" ELSE "off",
                  wakeAt |-> SleepMinutes * Minute, todo |-> {}, since |-> 0]
    /\ req = [i \in Reqs |-> IdleReq]
    /\ log = <<>>
    /\ expvars = NewExpvars
    /\ serving = NewServe
    /\ mailer = NewSend

Init == \E cfg \in Configs : InitFor(cfg)

\* ----------------------------------------------------- the requests ---
\* The server starts the goroutine of request i on the chain.
Arrive(i, ip, hdr, route) ==
    /\ req[i].pc = "idle"
    /\ IF i = 1 THEN TRUE ELSE req[i - 1].pc # "idle"
    /\ req' = [req EXCEPT ![i] =
                  Enter(chain, [IdleReq EXCEPT !.ip = ip, !.hdr = hdr,
                                               !.route = route], 1)]
    /\ UNCHANGED <<serving, mailer, expvars, config, chain, now, mu, clients, sweeper, log>>

\* Mutant of ClientKey: one bucket for every caller.
ClientKeyGlobal(r) == "a"

\* ip := realip.FromRequest(r)
ClientKey(r) == r.ip

\* Mutant of RLLock: the lock is taken without waiting for it to be free.
RLLockNoWait(i) ==
    /\ req[i].pc = "rl_lock"
    /\ mu' = TRUE
    /\ req' = [req EXCEPT ![i].pc = "rl_lookup"]
    /\ UNCHANGED <<serving, mailer, expvars, config, chain, now, clients, sweeper, log>>

\* mu.Lock()
RLLock(i) ==
    /\ req[i].pc = "rl_lock"
    /\ ~mu
    /\ mu' = TRUE
    /\ req' = [req EXCEPT ![i].pc = "rl_lookup"]
    /\ UNCHANGED <<serving, mailer, expvars, config, chain, now, clients, sweeper, log>>

\* Mutant of RLLookup: the lookup never finds the entry.
RLLookupMisses(i) ==
    /\ req[i].pc = "rl_lookup"
    /\ req' = [req EXCEPT ![i].found = FALSE, ![i].pc = "rl_create"]
    /\ UNCHANGED <<serving, mailer, expvars, config, chain, now, mu, clients, sweeper, log>>

\* _, found := clients[ip]
RLLookup(i) ==
    /\ req[i].pc = "rl_lookup"
    /\ LET found == ClientKey(req[i]) \in DOMAIN clients
       IN  req' = [req EXCEPT ![i].found = found,
                              ![i].pc = IF found THEN "rl_seen" ELSE "rl_create"]
    /\ UNCHANGED <<serving, mailer, expvars, config, chain, now, mu, clients, sweeper, log>>

\* clients[ip] = &client{limiter: rate.NewLimiter(rps, burst)}
RLCreate(i) ==
    /\ req[i].pc = "rl_create"
    /\ clients' = Put(clients, ClientKey(req[i]),
                      [limiter |-> NewLimiter(config.rps, config.burst),
                       lastSeen |-> ZeroTime])
    /\ req' = [req EXCEPT ![i].pc = "rl_seen"]
    /\ UNCHANGED <<serving, mailer, expvars, config, chain, now, mu, sweeper, log>>

\* Mutant of RLSeen: lastSeen is left as it is.
RLSeenStale(i) ==
    /\ req[i].pc = "rl_seen"
    /\ req' = [req EXCEPT ![i].pc = "rl_allow"]
    /\ UNCHANGED <<serving, mailer, expvars, config, chain, now, mu, clients, sweeper, log>>

\* clients[ip].lastSeen = time.Now(); a nil map entry panics.
RLSeen(i) ==
    /\ req[i].pc = "rl_seen"
    /\ LET ip == ClientKey(req[i])
       IN  IF ip \in DOMAIN clients
           THEN /\ clients' = [clients EXCEPT ![ip].lastSeen = now]
                /\ req' = [req EXCEPT ![i].pc = "rl_allow"]
           ELSE /\ clients' = clients
                /\ req' = [req EXCEPT ![i] = Panic(req[i], "rateLimit")]
    /\ UNCHANGED <<serving, mailer, expvars, config, chain, now, mu, sweeper, log>>

\* clients[ip].limiter.Allow()
RLAllow(i) ==
    /\ req[i].pc = "rl_allow"
    /\ LET ip == ClientKey(req[i])
       IN  IF ip \in DOMAIN clients
           THEN LET res == Allow(clients[ip].limiter, now)
                IN  /\ clients' = [clients EXCEPT ![ip].limiter = res.lim]
                    /\ req' = [req EXCEPT
                          ![i].decision = IF res.ok THEN "admit" ELSE "deny",
                          ![i].pc = IF res.ok THEN "rl_admit_unlock"
                                              ELSE "rl_deny_unlock"]
                    /\ log' = Append(log, [ip |-> ip, at |-> now, ok |-> res.ok,
                                           fresh |-> ~req[i].found, by |-> i])
           ELSE /\ clients' = clients
                /\ req' = [req EXCEPT ![i] = Panic(req[i], "rateLimit")]
                /\ log' = log
    /\ UNCHANGED <<serving, mailer, expvars, config, chain, now, mu, sweeper>>

\* Mutant of RLDenyUnlock: the deny path leaves without unlocking.
RLDenyKeepsLock(i) ==
    /\ req[i].pc = "rl_deny_unlock"
    /\ req' = [req EXCEPT ![i].pc = "rl_deny_resp"]
    /\ UNCHANGED <<serving, mailer, expvars, config, chain, now, mu, clients, sweeper, log>>

\* mu.Unlock() on the deny path
RLDenyUnlock(i) ==
    /\ req[i].pc = "rl_deny_unlock"
    /\ mu' = FALSE
    /\ req' = [req EXCEPT ![i].pc = "rl_deny_resp"]
    /\ UNCHANGED <<serving, mailer, expvars, config, chain, now, clients, sweeper, log>>

\* Mutant of RLDenyRespond: the return after the 429 response is missing.
RLDenyFallsThrough(i) ==
    /\ req[i].pc = "rl_deny_resp"
    /\ LET r == [req[i] EXCEPT !.w = rateLimitExceededResponse(req[i].w),
                               !.nextCalls = req[i].nextCalls + 1]
       IN  req' = [req EXCEPT ![i] = Enter(chain, r, r.depth + 1)]
    /\ UNCHANGED <<serving, mailer, expvars, config, chain, now, mu, clients, sweeper, log>>

\* app.rateLimitExceededResponse(w, r); return
RLDenyRespond(i) ==
    /\ req[i].pc = "rl_deny_resp"
    /\ req' = [req EXCEPT ![i] =
                  Return([req[i] EXCEPT !.w = rateLimitExceededResponse(req[i].w)])]
    /\ UNCHANGED <<serving, mailer, expvars, config, chain, now, mu, clients, sweeper, log>>

\* mu.Unlock(); next.ServeHTTP(w, r) on the admit path
RLAdmitUnlock(i) ==
    /\ req[i].pc = "rl_admit_unlock"
    /\ mu' = FALSE
    /\ req' = [req EXCEPT ![i] =
                  Enter(chain, [req[i] EXCEPT !.nextCalls = req[i].nextCalls + 1],
                        req[i].depth + 1)]
    /\ UNCHANGED <<serving, mailer, expvars, config, chain, now, clients, sweeper, log>>

\* ---------------------------------------------------- authenticate ----
\* Mutant of contextSetUser: the principal is stored in the request that
\* was passed in, which the outer stages hold too.
contextSetUserInPlace(r, user) ==
    [r EXCEPT !.user = user, !.orig = [r.orig EXCEPT !.user = user]]

\* app.contextSetUser(r, user): the request with the principal attached.
contextSetUser(r, user) == [r EXCEPT !.user = user]

\* authenticate calls next.ServeHTTP(w, r).
CallNext(r) == [r EXCEPT !.authNext = r.authNext + 1]

\* Mutant of AuthHeader: a header of another scheme counts as no header.
AuthHeaderSchemeIgnored(i) ==
    /\ req[i].pc = "au_header"
    /\ LET r == req[i]
           headerParts == Split(r.hdr)
       IN  req' = [req EXCEPT ![i] =
             IF r.hdr = <<>> \/ headerParts[1] # Bearer
             THEN Enter(chain, CallNext(contextSetUser(r, AnonymousUser)),
                        r.depth + 1)
             ELSE IF Len(headerParts) # 2 \/ ~ValidTokenPlaintext(headerParts[2])
             THEN Return([r EXCEPT !.w = invalidCredentialsResponse(r.w)])
             ELSE [r EXCEPT !.pc = "au_lookup"]]
    /\ UNCHANGED <<serving, mailer, expvars, config, chain, now, mu, clients, sweeper, log>>

\* authenticate, up to the token-store lookup: the Authorization header is
\* read, split and its token validated.
AuthHeader(i) ==
    /\ req[i].pc = "au_header"
    /\ LET r == req[i]
           headerParts == Split(r.hdr)
       IN  req' = [req EXCEPT ![i] =
             IF r.hdr = <<>>
             THEN Enter(chain, CallNext(contextSetUser(r, AnonymousUser)),
                        r.depth + 1)
             ELSE IF Len(headerParts) # 2 \/ headerParts[1] # Bearer
             THEN Return([r EXCEPT !.w = invalidCredentialsResponse(r.w)])
             ELSE IF ~ValidTokenPlaintext(headerParts[2])
             THEN Return([r EXCEPT !.w = invalidCredentialsResponse(r.w)])
             ELSE [r EXCEPT !.pc = "au_lookup"]]
    /\ UNCHANGED <<serving, mailer, expvars, config, chain, now, mu, clients, sweeper, log>>

\* The err that GetForToken returns with user, given what the store does.
LookupErr(user, fault) ==
    IF fault = "panic" THEN "nil"
    ELSE IF fault = "error" THEN "other"
    ELSE IF user = NotFound THEN "ErrRecordNotFound" ELSE "nil"

\* Mutant of AuthLookup: a failed lookup carries on as an anonymous request.
AuthLookupSwallows(i, fault) ==
    /\ req[i].pc = "au_lookup"
    /\ LET user == GetForToken(Split(req[i].hdr)[2])
           r == [req[i] EXCEPT !.lookups = req[i].lookups + 1,
                               !.err = LookupErr(user, fault)]
       IN  req' = [req EXCEPT ![i] =
             IF fault = "panic" THEN Panic(r, "authenticate")
             ELSE IF r.err # "nil"
             THEN Enter(chain, CallNext(contextSetUser(r, AnonymousUser)),
                        r.depth + 1)
             ELSE Enter(chain, CallNext(contextSetUser(r, user)), r.depth + 1)]
    /\ UNCHANGED <<serving, mailer, expvars, config, chain, now, mu, clients, sweeper, log>>

\* user, err := app.models.Users.GetForToken(scope, token) and what follows.
\* fault is what the store does beyond answering: "none", "error" (an error
\* other than ErrRecordNotFound) or "panic".
AuthLookup(i, fault) ==
    /\ req[i].pc = "au_lookup"
    /\ LET user == GetForToken(Split(req[i].hdr)[2])
           r == [req[i] EXCEPT !.lookups = req[i].lookups + 1,
                               !.err = LookupErr(user, fault)]
       IN  req' = [req EXCEPT ![i] =
             IF fault = "panic" THEN Panic(r, "authenticate")
             ELSE IF r.err = "ErrRecordNotFound"
             THEN Return([r EXCEPT !.w = invalidAuthenticationTokenResponse(r.w)])
             ELSE IF r.err # "nil"
             THEN Return([r EXCEPT !.w = serverErrorResponse(r.w)])
             ELSE Enter(chain, CallNext(contextSetUser(r, user)), r.depth + 1)]
    /\ UNCHANGED <<serving, mailer, expvars, config, chain, now, mu, clients, sweeper, log>>

\* ------------------------------------------------- route handlers ----
\* The handler writes its response (fmt.Fprintln(w, ...)).
HandlerWrite(i) ==
    /\ req[i].pc = "rt_handler"
    /\ req' = [req EXCEPT ![i].w = Write(req[i].w, "handler output"),
                          ![i].pc = "rt_wrote"]
    /\ UNCHANGED <<serving, mailer, expvars, config, chain, now, mu, clients, sweeper, log>>

\* The handler returns.
HandlerReturn(i) ==
    /\ req[i].pc = "rt_wrote"
    /\ req' = [req EXCEPT ![i] = Return(req[i])]
    /\ UNCHANGED <<serving, mailer, expvars, config, chain, now, mu, clients, sweeper, log>>

\* The handler panics, before or after it wrote.
HandlerPanic(i) ==
    /\ req[i].pc \in {"rt_handler", "rt_wrote"}
    /\ req' = [req EXCEPT ![i] = Panic(req[i], "router")]
    /\ UNCHANGED <<serving, mailer, expvars, config, chain, now, mu, clients, sweeper, log>>

\* ---------------------------------------------------- recoverPanic ----
\* Mutant of RecoverPanic: the recovery drops the registry entry of the
\* request's identity, and its debit with it.
RecoverPanicForgets(i) ==
    /\ req[i].pc = "rp_recover"
    /\ req' = [req EXCEPT ![i] =
          [req[i] EXCEPT !.w = serverErrorResponse([req[i].w EXCEPT !.hconn = TRUE]),
                         !.recovered = req[i].recovered + 1,
                         !.pc = AfterRecover(req[i])]]
    /\ clients' = Delete(clients, req[i].ip)
    /\ UNCHANGED <<serving, mailer, expvars, config, chain, now, mu, sweeper, log>>

\* The deferred function with recover() non-nil:
\* w.Header().Set("Connection", "close"); app.serverErrorResponse(w, r, err).
RecoverPanic(i) ==
    /\ req[i].pc = "rp_recover"
    /\ req' = [req EXCEPT ![i] =
          [req[i] EXCEPT !.w = serverErrorResponse([req[i].w EXCEPT !.hconn = TRUE]),
                         !.recovered = req[i].recovered + 1,
                         !.pc = AfterRecover(req[i])]]
    /\ UNCHANGED <<serving, mailer, expvars, config, chain, now, mu, clients, sweeper, log>>

\* --------------------------------------------------------- metrics ----
\* start := time.Now(); totalRequestsReceived.Add(1);
\* mw := newMetricsResponseWriter(w); next.ServeHTTP(w, r): next is given
\* w, so nothing it writes goes through mw.
MetricsReceive(i) ==
    /\ req[i].pc = "mx_recv"
    /\ expvars' = [expvars EXCEPT !.received = expvars.received + 1]
    /\ req' = [req EXCEPT ![i] =
                  Enter(chain, [req[i] EXCEPT !.metered = TRUE, !.start = now,
                                              !.mw = newMetricsResponseWriter],
                        req[i].depth + 1)]
    /\ UNCHANGED <<serving, mailer, config, chain, now, mu, clients, sweeper, log>>

\* totalResponsesSent.Add(1)
MetricsSent(i) ==
    /\ req[i].pc = "mx_sent"
    /\ expvars' = [expvars EXCEPT !.sent = expvars.sent + 1]
    /\ req' = [req EXCEPT ![i].pc = "mx_status"]
    /\ UNCHANGED <<serving, mailer, config, chain, now, mu, clients, sweeper, log>>

\* Mutant of MetricsStatus: the key is set to 1 instead of added to.
MetricsStatusSets(i) ==
    /\ req[i].pc = "mx_status"
    /\ LET key == req[i].mw.statusCode
       IN  /\ expvars' = [expvars EXCEPT !.byStatus =
                              [k \in DOMAIN expvars.byStatus \cup {key} |->
                                  IF k = key THEN 1 ELSE expvars.byStatus[k]]]
           /\ req' = [req EXCEPT ![i].pc = "mx_time", ![i].counted = key]
    /\ UNCHANGED <<serving, mailer, config, chain, now, mu, clients, sweeper, log>>

\* totalResponsesSentByStatus.Add(strconv.Itoa(mw.statusCode), 1)
MetricsStatus(i) ==
    /\ req[i].pc = "mx_status"
    /\ LET key == req[i].mw.statusCode
       IN  /\ expvars' = [expvars EXCEPT !.byStatus = MapAdd(expvars.byStatus, key, 1)]
           /\ req' = [req EXCEPT ![i].pc = "mx_time", ![i].counted = key]
    /\ UNCHANGED <<serving, mailer, config, chain, now, mu, clients, sweeper, log>>

\* duration := time.Since(start).Microseconds();
\* totalProcessingTimeMicroseconds.Add(duration); the handler returns.
MetricsTime(i) ==
    /\ req[i].pc = "mx_time"
    /\ expvars' = [expvars EXCEPT
                      !.micros = expvars.micros + (now - req[i].start) * MicrosPerTick]
    /\ req' = [req EXCEPT ![i].pc = "done"]
    /\ UNCHANGED <<serving, mailer, config, chain, now, mu, clients, sweeper, log>>

\* The steps of request i in the handler of metrics.
MetricsStep(i) ==
    \/ MetricsReceive(i)
    \/ MetricsSent(i)
    \/ MetricsStatus(i)
    \/ MetricsTime(i)

\* A handler that is handed a metricsResponseWriter around the writer of
\* request i, and the calls it makes on it; the handlers run one after the
\* other, each wrapper being an object of its own.
WrapperNew(i) ==
    /\ req[i].pc = "idle"
    /\ IF i = 1 THEN TRUE ELSE req[i - 1].pc = "done"
    /\ req' = [req EXCEPT ![i].pc = "mw_calls", ![i].mw = newMetricsResponseWriter]
    /\ UNCHANGED <<serving, mailer, expvars, config, chain, now, mu, clients, sweeper, log>>

\* The calls made on the wrapper of request i so far.
Calls(r) == r.w.writes + Len(r.w.body)

WrapperWriteHeader(i, statusCode) ==
    /\ req[i].pc = "mw_calls"
    /\ Calls(req[i]) < MaxCalls
    /\ LET res == mwWriteHeader(req[i].mw, req[i].w, statusCode)
       IN  req' = [req EXCEPT ![i].mw = res.mw, ![i].w = res.w]
    /\ UNCHANGED <<serving, mailer, expvars, config, chain, now, mu, clients, sweeper, log>>

WrapperWrite(i) ==
    /\ req[i].pc = "mw_calls"
    /\ Calls(req[i]) < MaxCalls
    /\ LET res == mwWrite(req[i].mw, req[i].w, "handler output")
       IN  req' = [req EXCEPT ![i].mw = res.mw, ![i].w = res.w]
    /\ UNCHANGED <<serving, mailer, expvars, config, chain, now, mu, clients, sweeper, log>>

WrapperHeader(i) ==
    /\ req[i].pc = "mw_calls"
    /\ ~req[i].w.hconn
    /\ LET res == mwHeaderSet(req[i].mw, req[i].w)
       IN  req' = [req EXCEPT ![i].mw = res.mw, ![i].w = res.w]
    /\ UNCHANGED <<serving, mailer, expvars, config, chain, now, mu, clients, sweeper, log>>

\* The handler returns.
WrapperReturn(i) ==
    /\ req[i].pc = "mw_calls"
    /\ req' = [req EXCEPT ![i].pc = "done"]
    /\ UNCHANGED <<serving, mailer, expvars, config, chain, now, mu, clients, sweeper, log>>

\* ------------------------------------------------------- the sweep ----
\* time.Sleep(time.Minute) is over.
SweepWake ==
    /\ sweeper.pc = "sleep"
    /\ now >= sweeper.wakeAt
    /\ sweeper' = [sweeper EXCEPT !.pc = "lock"]
    /\ UNCHANGED <<serving, mailer, expvars, config, chain, now, mu, clients, req, log>>

\* mu.Lock(); the range loop starts over the entries of the map.  since
\* records when the sweep took the lock, for the claims about it.
SweepLock ==
    /\ sweeper.pc = "lock"
    /\ ~mu
    /\ mu' = TRUE
    /\ sweeper' = [sweeper EXCEPT !.pc = "scan", !.todo = DOMAIN clients,
                                  !.since = now]
    /\ UNCHANGED <<serving, mailer, expvars, config, chain, now, clients, req, log>>

\* Mutant of Idle: no entry is ever old enough.
IdleNever(c, t) == FALSE

\* Mutant of Idle: an entry is old enough at the threshold itself.
IdleAtThreshold(c, t) == t - c.lastSeen >= EvictMinutes * Minute

\* time.Since(client.lastSeen) > 3*time.Minute
Idle(c, t) == t - c.lastSeen > EvictMinutes * Minute

\* One iteration of the range loop, on entry ip.
SweepScan(ip) ==
    /\ sweeper.pc = "scan"
    /\ ip \in sweeper.todo
    /\ clients' = IF ip \in DOMAIN clients /\ Idle(clients[ip], now)
                  THEN Delete(clients, ip) ELSE clients
    /\ sweeper' = [sweeper EXCEPT !.todo = sweeper.todo \ {ip}]
    /\ UNCHANGED <<serving, mailer, expvars, config, chain, now, mu, req, log>>

\* Mutant of SweepUnlock: the sweep goes back to sleep holding the lock.
SweepUnlockLeaks ==
    /\ sweeper.pc = "scan"
    /\ sweeper.todo = {}
    /\ sweeper' = [sweeper EXCEPT !.pc = "sleep", !.since = 0,
                                  !.wakeAt = now + SleepMinutes * Minute]
    /\ UNCHANGED <<serving, mailer, expvars, config, chain, now, mu, clients, req, log>>

\* The loop is over: mu.Unlock(), and the next time.Sleep(time.Minute).
SweepUnlock ==
    /\ sweeper.pc = "scan"
    /\ sweeper.todo = {}
    /\ mu' = FALSE
    /\ sweeper' = [sweeper EXCEPT !.pc = "sleep", !.since = 0,
                                  !.wakeAt = now + SleepMinutes * Minute]
    /\ UNCHANGED <<serving, mailer, expvars, config, chain, now, clients, req, log>>

\* ------------------------------------------------------- the clock ----
\* d ticks pass.
Tick(d) ==
    /\ now + d <= MaxMinutes * Minute + MaxTicks
    /\ d < Minute => (now % Minute) + d <= MaxTicks
    /\ now' = now + d
    /\ UNCHANGED <<serving, mailer, expvars, config, chain, mu, clients, sweeper, req, log>>

\* ----------------------------------------------------------- serve ----
\* serve() is called: srv and shutdownError are made, the signal goroutine
\* is started, and main goes on to srv.ListenAndServe().
ServeCall ==
    /\ serving.main = "idle"
    /\ serving' = [serving EXCEPT !.main = "listen", !.sig = "notify"]
    /\ UNCHANGED <<config, chain, now, mu, clients, sweeper, req, log, expvars, mailer>>

\* quit := make(chan os.Signal, 1); signal.Notify(quit, SIGINT, SIGTERM);
\* the goroutine then blocks in <-quit.
SigNotify ==
    /\ serving.sig = "notify"
    /\ serving' = [serving EXCEPT !.sig = "wait"]
    /\ UNCHANGED <<config, chain, now, mu, clients, sweeper, req, log, expvars, mailer>>

\* The process is sent SIGINT or SIGTERM.  Before signal.Notify the default
\* action ends the process; after it the signal is put on quit, or dropped
\* when quit is full (signal.Notify does not block).
Signal(s) ==
    /\ serving.main \in {"listen", "check", "await"}
    /\ serving.signals < MaxSignals
    /\ serving' =
          IF serving.sig = "notify"
          THEN [serving EXCEPT !.main = "killed", !.sig = "killed",
                               !.signals = serving.signals + 1]
          ELSE [serving EXCEPT !.signals = serving.signals + 1,
                               !.quit = IF Len(serving.quit) < 1
                                        THEN Append(serving.quit, s)
                                        ELSE serving.quit]
    /\ UNCHANGED <<config, chain, now, mu, clients, sweeper, req, log, expvars, mailer>>

\* s := <-quit
SigReceive ==
    /\ serving.sig = "wait"
    /\ serving.quit # <<>>
    /\ serving' = [serving EXCEPT !.sig = "shutdown", !.caught = Head(serving.quit),
                                  !.quit = Tail(serving.quit)]
    /\ UNCHANGED <<config, chain, now, mu, clients, sweeper, req, log, expvars, mailer>>

\* srv.Shutdown(ctx) is entered: the server is marked as shutting down and
\* its listeners are closed.
ShutdownCall ==
    /\ serving.sig = "shutdown"
    /\ serving.shutdown = "none"
    /\ serving' = [serving EXCEPT !.shutdown = "called"]
    /\ UNCHANGED <<config, chain, now, mu, clients, sweeper, req, log, expvars, mailer>>

\* srv.Shutdown(ctx) returns: nil when the connections have gone idle, the
\* context's error when the 30 seconds are over first.  The goroutine then
\* blocks in the send on shutdownError.
ShutdownReturn(res) ==
    /\ serving.sig = "shutdown"
    /\ serving.shutdown = "called"
    /\ serving' = [serving EXCEPT !.shutdown = res, !.sig = "send"]
    /\ UNCHANGED <<config, chain, now, mu, clients, sweeper, req, log, expvars, mailer>>

\* srv.ListenAndServe() returns: http.ErrServerClosed once Shutdown was
\* entered, and before that any error of listening or accepting.
ListenAndServe ==
    /\ serving.main = "listen"
    /\ serving' = [serving EXCEPT !.main = "check",
                                  !.las = IF serving.shutdown = "none"
                                          THEN "other" ELSE "ErrServerClosed"]
    /\ UNCHANGED <<config, chain, now, mu, clients, sweeper, req, log, expvars, mailer>>

\* Mutant of ServeCheck: ErrServerClosed is answered with nil at once.
ServeCheckNoWait ==
    /\ serving.main = "check"
    /\ serving' = IF serving.las # "ErrServerClosed"
                  THEN [serving EXCEPT !.main = "returned", !.ret = serving.las]
                  ELSE [serving EXCEPT !.main = "returned", !.ret = "nil"]
    /\ UNCHANGED <<config, chain, now, mu, clients, sweeper, req, log, expvars, mailer>>

\* if !errors.Is(err, http.ErrServerClosed) { return err }; otherwise main
\* blocks in <-shutdownError.
ServeCheck ==
    /\ serving.main = "check"
    /\ serving' = IF serving.las # "ErrServerClosed"
                  THEN [serving EXCEPT !.main = "returned", !.ret = serving.las]
                  ELSE [serving EXCEPT !.main = "await"]
    /\ UNCHANGED <<config, chain, now, mu, clients, sweeper, req, log, expvars, mailer>>

\* shutdownError <- srv.Shutdown(ctx) meets err = <-shutdownError (the
\* channel is unbuffered); serve returns err, nil included.
ServeReceive ==
    /\ serving.main = "await"
    /\ serving.sig = "send"
    /\ serving' = [serving EXCEPT !.main = "returned", !.sig = "done",
                                  !.ret = serving.shutdown]
    /\ UNCHANGED <<config, chain, now, mu, clients, sweeper, req, log, expvars, mailer>>

\* ------------------------------------------------------ Mailer.Send ----
\* The steps of Send that build the message, in the order of the code; each
\* returns its error when it fails.
BuildSteps ==
    <<"ParseFS text", "subject", "plainBody", "ParseFS html", "htmlBody",
      "To", "From">>

\* for i := 0; i < 3; i++
Attempts == 3

\* What m.client.DialAndSend(msg) may return.
DialErrors == {"timeout", "refused", "auth"}

SendCall ==
    /\ mailer.pc = "idle"
    /\ mailer' = [mailer EXCEPT !.pc = "build"]
    /\ UNCHANGED <<config, chain, now, mu, clients, sweeper, req, log, expvars, serving>>

\* One step of building the message: if err != nil { return err }.
SendBuild(ok) ==
    /\ mailer.pc = "build"
    /\ mailer' =
          IF ~ok
          THEN [mailer EXCEPT !.pc = "returned",
                              !.ret = BuildSteps[mailer.build + 1]]
          ELSE [mailer EXCEPT !.build = mailer.build + 1,
                              !.pc = IF mailer.build + 1 = Len(BuildSteps)
                                     THEN "dial" ELSE "build"]
    /\ UNCHANGED <<config, chain, now, mu, clients, sweeper, req, log, expvars, serving>>

\* err = m.client.DialAndSend(msg); if err == nil { return nil }
SendAttempt(res) ==
    /\ mailer.pc = "dial"
    /\ mailer' =
          IF res = "nil"
          THEN [mailer EXCEPT !.errs = Append(mailer.errs, res), !.err = res,
                              !.pc = "returned", !.ret = "nil"]
          ELSE [mailer EXCEPT !.errs = Append(mailer.errs, res), !.err = res,
                              !.pc = "sleep"]
    /\ UNCHANGED <<config, chain, now, mu, clients, sweeper, req, log, expvars, serving>>

\* Mutant of SendSleep: after the last attempt the error of the first one
\* is returned.
SendSleepFirst ==
    /\ mailer.pc = "sleep"
    /\ mailer' =
          IF Len(mailer.errs) < Attempts
          THEN [mailer EXCEPT !.sleeps = mailer.sleeps + 1, !.pc = "dial"]
          ELSE [mailer EXCEPT !.sleeps = mailer.sleeps + 1, !.pc = "returned",
                              !.ret = mailer.errs[1]]
    /\ UNCHANGED <<config, chain, now, mu, clients, sweeper, req, log, expvars, serving>>

\* if i != 3 { time.Sleep(500 * time.Millisecond) }: i is below 3 inside
\* the loop, so Send sleeps after every failed attempt, the last included;
\* then i++ and either the next attempt or return err.
SendSleep ==
    /\ mailer.pc = "sleep"
    /\ mailer' =
          IF Len(mailer.errs) < Attempts
          THEN [mailer EXCEPT !.sleeps = mailer.sleeps + 1, !.pc = "dial"]
          ELSE [mailer EXCEPT !.sleeps = mailer.sleeps + 1, !.pc = "returned",
                              !.ret = mailer.err]
    /\ UNCHANGED <<config, chain, now, mu, clients, sweeper, req, log, expvars, serving>>

\* -------------------------------------------------- specifications ----
\* No request is in flight.
Quiet == \A i \in Reqs : req[i].pc \in {"idle", "done", "aborted"}

\* The steps of request i in rateLimit.
RateLimitStep(i) ==
    \/ RLLock(i)
    \/ RLLookup(i)
    \/ RLCreate(i)
    \/ RLSeen(i)
    \/ RLAllow(i)
    \/ RLDenyUnlock(i)
    \/ RLDenyRespond(i)
    \/ RLAdmitUnlock(i)

\* The steps of a route handler that does not panic.
HandlerStep(i) ==
    \/ HandlerWrite(i)
    \/ HandlerReturn(i)

Sweep ==
    \/ SweepWake
    \/ SweepLock
    \/ \E ip \in IPs : SweepScan(ip)
    \/ SweepUnlock

InitEnabled == \E cfg \in Configs : cfg.enabled /\ InitFor(cfg)

\* Where no time passes between the requests, or a whole minute does, the
\* refill rate makes no difference and one rate stands for all.
InitOneRate == \E cfg \in Configs : cfg.rps = 1 /\ InitFor(cfg)

\* SpecBurst: one identity sends its requests one after the other, single
\* ticks passing between them, within the first minute (no sweep is due).
NextBurst ==
    \/ \E i \in Reqs : Quiet /\ Arrive(i, "a", NoHeader, "open")
    \/ \E i \in Reqs : RateLimitStep(i)
    \/ \E i \in Reqs : AuthHeader(i)
    \/ \E i \in Reqs : HandlerStep(i)
    \/ Quiet /\ Tick(1)

SpecBurst == InitEnabled /\ [][NextBurst]_vars

\* SpecConc: up to MaxConc requests of two identities run concurrently, no
\* time elapsing (the sweep goroutine sleeps throughout).
NextConc ==
    \/ \E i \in 1..MaxConc, ip \in IPs : Arrive(i, ip, NoHeader, "open")
    \/ \E i \in 1..MaxConc : RateLimitStep(i)
    \/ \E i \in 1..MaxConc : AuthHeader(i)
    \/ \E i \in 1..MaxConc : HandlerStep(i)

SpecConc == InitOneRate /\ [][NextConc]_vars

\* SpecLock: up to MaxConc concurrent requests of one identity, and the
\* first sweep: the clock takes the one step to the end of its sleep.
NextLock ==
    \/ \E i \in 1..MaxConc : Arrive(i, "a", NoHeader, "open")
    \/ \E i \in 1..MaxConc : RateLimitStep(i)
    \/ \E i \in 1..MaxConc : AuthHeader(i)
    \/ \E i \in 1..MaxConc : HandlerStep(i)
    \/ Sweep
    \/ now < SleepMinutes * Minute /\ Tick(Minute)

SpecLock == InitOneRate /\ [][NextLock]_vars

\* SpecSweep: one identity sends up to MaxConc requests one after the
\* other while the sweep goroutine runs and the clock advances by minutes,
\* and by one tick after a whole minute.
NextSweep ==
    \/ \E i \in 1..MaxConc : Quiet /\ Arrive(i, "a", NoHeader, "open")
    \/ \E i \in 1..MaxConc : RateLimitStep(i)
    \/ \E i \in 1..MaxConc : AuthHeader(i)
    \/ \E i \in 1..MaxConc : HandlerStep(i)
    \/ Sweep
    \/ now % Minute = 0 /\ Tick(1)
    \/ Tick(Minute)

SpecSweep == Init /\ [][NextSweep]_vars

\* SpecChain: one identity sends up to MaxChain requests one after the
\* other, with every kind of Authorization header, to an open route or a
\* movie route; the token store may fail and the route handler may panic.
ChainHeaders ==
    {NoHeader, BasicHeader, BearerHeader(KnownToken), BearerHeader(InactiveToken),
     BearerHeader(UnknownToken), BearerHeader(ShortToken)}

NextChain ==
    \/ \E i \in 1..MaxChain, hdr \in ChainHeaders, route \in {"open", "movies"} :
          Quiet /\ Arrive(i, "a", hdr, route)
    \/ \E i \in 1..MaxChain : RateLimitStep(i)
    \/ \E i \in 1..MaxChain : AuthHeader(i)
    \/ \E i \in 1..MaxChain, fault \in {"none", "error", "panic"} :
          AuthLookup(i, fault)
    \/ \E i \in 1..MaxChain : HandlerStep(i)
    \/ \E i \in 1..MaxChain : HandlerPanic(i)
    \/ \E i \in 1..MaxChain : RecoverPanic(i)

SpecChain == InitOneRate /\ [][NextChain]_vars

\* SpecGuard: the composition of cmd/api/routes.go, recoverPanic(router),
\* with routes wrapped in the authorization stages: no authenticate stage
\* runs, a request carries the principal its sender attached, or none.
GuardUsers ==
    {NoUser, AnonymousUser, GetForToken(KnownToken), GetForToken(InactiveToken),
     Carol}

InitGuard ==
    /\ config = [enabled |-> FALSE, rps |-> 1, burst |-> 1]
    /\ chain = recoverPanic(router)
    /\ now = 0
    /\ mu = FALSE
    /\ clients = NoClients
    /\ sweeper = [pc |-> "off", wakeAt |-> SleepMinutes * Minute, todo |-> {},
                  since |-> 0]
    /\ req = [i \in Reqs |-> IdleReq]
    /\ log = <<>>
    /\ expvars = NewExpvars
    /\ serving = NewServe
    /\ mailer = NewSend

\* The server starts request i, whose context carries user when one was
\* attached with contextSetUser before the chain runs.
ServeWith(i, route, user) ==
    /\ req[i].pc = "idle"
    /\ IF i = 1 THEN TRUE ELSE req[i - 1].pc # "idle"
    /\ LET r0 == [IdleReq EXCEPT !.ip = "a", !.route = route]
           r == IF user = NoUser THEN r0 ELSE contextSetUser(r0, user)
       IN  req' = [req EXCEPT ![i] = Enter(chain, r, 1)]
    /\ UNCHANGED <<serving, mailer, expvars, config, chain, now, mu, clients, sweeper, log>>

NextGuard ==
    \/ \E i \in 1..MaxChain, route \in {"movies", "authed", "perm"},
          user \in GuardUsers : Quiet /\ ServeWith(i, route, user)
    \/ \E i \in 1..MaxChain : HandlerStep(i)
    \/ \E i \in 1..MaxChain : HandlerPanic(i)
    \/ \E i \in 1..MaxChain : RecoverPanic(i)

SpecGuard == InitGuard /\ [][NextGuard]_vars

\* SpecMetrics: metrics wraps the full chain of routes(); up to MaxChain
\* requests of one identity run concurrently on an open route, with or
\* without a wrong-scheme header; a handler may panic and one tick may
\* pass.
InitMetrics ==
    \E cfg \in Configs :
        /\ cfg.rps = 1 /\ cfg.burst = 1
        /\ config = cfg
        /\ chain = metrics(routes(cfg))
        /\ now = 0
        /\ mu = FALSE
        /\ clients = NoClients
        /\ sweeper = [pc |-> IF cfg.enabled THEN "sleep" ELSE "off",
                      wakeAt |-> SleepMinutes * Minute, todo |-> {}, since |-> 0]
        /\ req = [i \in Reqs |-> IdleReq]
        /\ log = <<>>
        /\ expvars = NewExpvars
        /\ serving = NewServe
        /\ mailer = NewSend

NextMetrics ==
    \/ \E i \in 1..MaxChain, hdr \in {NoHeader, BasicHeader} :
          Arrive(i, "a", hdr, "open")
    \/ \E i \in 1..MaxChain : MetricsStep(i)
    \/ \E i \in 1..MaxChain : RateLimitStep(i)
    \/ \E i \in 1..MaxChain : AuthHeader(i)
    \/ \E i \in 1..MaxChain : HandlerStep(i)
    \/ \E i \in 1..MaxChain : HandlerPanic(i)
    \/ \E i \in 1..MaxChain : RecoverPanic(i)
    \/ now < 1 /\ Tick(1)

SpecMetrics == InitMetrics /\ [][NextMetrics]_vars

\* SpecCORS: enableCORS in front of the router; requests with any Origin,
\* method and Access-Control-Request-Method arrive one after the other,
\* whatever the list of trusted origins.
TrustedLists == {<<>>, <<"o1">>, <<"o1", "o2">>}

InitCORS ==
    \E trusted \in TrustedLists :
        /\ config = [enabled |-> FALSE, rps |-> 1, burst |-> 1, trusted |-> trusted]
        /\ chain = enableCORS(router)
        /\ now = 0
        /\ mu = FALSE
        /\ clients = NoClients
        /\ sweeper = [pc |-> "off", wakeAt |-> SleepMinutes * Minute, todo |-> {},
                      since |-> 0]
        /\ req = [i \in Reqs |-> IdleReq]
        /\ log = <<>>
        /\ expvars = NewExpvars
        /\ serving = NewServe
        /\ mailer = NewSend

\* The server starts request i with the given CORS request headers.
ArriveCORS(i, origin, method, acrm) ==
    /\ req[i].pc = "idle"
    /\ IF i = 1 THEN TRUE ELSE req[i - 1].pc # "idle"
    /\ req' = [req EXCEPT ![i] =
                  Enter(chain, [IdleReq EXCEPT !.ip = "a", !.route = "open",
                                               !.origin = origin, !.method = method,
                                               !.acrm = acrm], 1)]
    /\ UNCHANGED <<serving, mailer, expvars, config, chain, now, mu, clients, sweeper, log>>

NextCORS ==
    \/ \E i \in 1..MaxChain, origin \in {"", "o1", "o2", "o3"},
          method \in {"GET", "OPTIONS"}, acrm \in {"", "PUT"} :
          Quiet /\ ArriveCORS(i, origin, method, acrm)
    \/ \E i \in 1..MaxChain : HandlerStep(i)

SpecCORS == InitCORS /\ [][NextCORS]_vars

\* SpecRace: up to MaxChain concurrent requests of one identity race with
\* sweeps that do evict: the clock jumps to the eviction threshold and
\* then one tick past it.
InitRace == \E cfg \in Configs : cfg.enabled /\ cfg.rps = 1 /\ InitFor(cfg)

NextRace ==
    \/ \E i \in 1..MaxChain : Arrive(i, "a", NoHeader, "open")
    \/ \E i \in 1..MaxChain : RateLimitStep(i)
    \/ \E i \in 1..MaxChain : AuthHeader(i)
    \/ \E i \in 1..MaxChain : HandlerStep(i)
    \/ Sweep
    \/ now = 0 /\ Tick(EvictMinutes * Minute)
    \/ now = EvictMinutes * Minute /\ Tick(1)

SpecRace == InitRace /\ [][NextRace]_vars

\* SpecLive: up to MaxChain concurrent requests of one identity on a
\* bucket of one token, the first sweep, and route handlers that may
\* panic, under fair scheduling of rateLimit and the sweep: a goroutine
\* that can take a step of the critical section takes it (no statement
\* between Lock and Unlock blocks), and one that waits in mu.Lock() gets the
\* lock if it is free again and again (sync.Mutex hands the lock to a
\* starving waiter).  Nothing is assumed of authenticate, the route
\* handlers, recoverPanic or the clock: they may stop for good.
InitLive == InitFor([enabled |-> TRUE, rps |-> 1, burst |-> 1])

NextLive ==
    \/ \E i \in 1..MaxChain : Arrive(i, "a", NoHeader, "open")
    \/ \E i \in 1..MaxChain : RateLimitStep(i)
    \/ \E i \in 1..MaxChain : AuthHeader(i)
    \/ \E i \in 1..MaxChain : HandlerStep(i)
    \/ \E i \in 1..MaxChain : HandlerPanic(i)
    \/ \E i \in 1..MaxChain : RecoverPanic(i)
    \/ Sweep
    \/ now = 0 /\ Tick(SleepMinutes * Minute)

CriticalStep(i) ==
    \/ RLLookup(i)
    \/ RLCreate(i)
    \/ RLSeen(i)
    \/ RLAllow(i)
    \/ RLDenyUnlock(i)
    \/ RLDenyRespond(i)
    \/ RLAdmitUnlock(i)

FairLive ==
    /\ \A i \in 1..MaxChain : SF_vars(RLLock(i)) /\ WF_vars(CriticalStep(i))
    /\ SF_vars(SweepLock)
    /\ WF_vars((\E ip \in IPs : SweepScan(ip)) \/ SweepUnlock)

SpecLive == InitLive /\ [][NextLive]_vars /\ FairLive

\* SpecPanic: up to MaxChain concurrent requests of two identities whose
\* route handlers may panic, one tick passing; the sweep sleeps.
NextPanic ==
    \/ \E i \in 1..MaxChain, ip \in IPs : Arrive(i, ip, NoHeader, "open")
    \/ \E i \in 1..MaxChain : RateLimitStep(i)
    \/ \E i \in 1..MaxChain : AuthHeader(i)
    \/ \E i \in 1..MaxChain : HandlerStep(i)
    \/ \E i \in 1..MaxChain : HandlerPanic(i)
    \/ \E i \in 1..MaxChain : RecoverPanic(i)
    \/ now < 1 /\ Tick(1)

SpecPanic == InitRace /\ [][NextPanic]_vars

\* SpecUnwind: metrics composed with recoverPanic either way round, or
\* with no recoverPanic at all, around a router whose handlers may panic;
\* up to MaxChain concurrent requests, one tick passing.
UnwindChains ==
    {metrics(recoverPanic(router)), recoverPanic(metrics(router)), metrics(router)}

InitUnwind ==
    /\ config = [enabled |-> FALSE, rps |-> 1, burst |-> 1]
    /\ chain \in UnwindChains
    /\ now = 0
    /\ mu = FALSE
    /\ clients = NoClients
    /\ sweeper = [pc |-> "off", wakeAt |-> SleepMinutes * Minute, todo |-> {},
                  since |-> 0]
    /\ req = [i \in Reqs |-> IdleReq]
    /\ log = <<>>
    /\ expvars = NewExpvars
    /\ serving = NewServe
    /\ mailer = NewSend

NextUnwind ==
    \/ \E i \in 1..MaxChain : Arrive(i, "a", NoHeader, "open")
    \/ \E i \in 1..MaxChain : MetricsStep(i)
    \/ \E i \in 1..MaxChain : HandlerStep(i)
    \/ \E i \in 1..MaxChain : HandlerPanic(i)
    \/ \E i \in 1..MaxChain : RecoverPanic(i)
    \/ now < 1 /\ Tick(1)

SpecUnwind == InitUnwind /\ [][NextUnwind]_vars

\* SpecServe: one call of serve(), with up to MaxSignals signals sent to
\* the process at any time, a ListenAndServe that may fail and a Shutdown
\* that may run into its timeout.
Signals == {"SIGINT", "SIGTERM"}

InitServe == InitFor([enabled |-> FALSE, rps |-> 1, burst |-> 1])

NextServe ==
    \/ ServeCall
    \/ SigNotify
    \/ \E s \in Signals : Signal(s)
    \/ SigReceive
    \/ ShutdownCall
    \/ \E res \in {"nil", "DeadlineExceeded"} : ShutdownReturn(res)
    \/ ListenAndServe
    \/ ServeCheck
    \/ ServeReceive

SpecServe == InitServe /\ [][NextServe]_vars

\* SpecMail: one call of Mailer.Send, each building step and each delivery
\* attempt succeeding or failing.
InitMail == InitFor([enabled |-> FALSE, rps |-> 1, burst |-> 1])

NextMail ==
    \/ SendCall
    \/ \E ok \in BOOLEAN : SendBuild(ok)
    \/ \E res \in DialErrors \cup {"nil"} : SendAttempt(res)
    \/ SendSleep

SpecMail == InitMail /\ [][NextMail]_vars

\* SpecShape: one identity sends up to MaxChain requests one after the
\* other with Bearer headers of every shape: no token, an empty token, a
\* token one character short or long, a third part, two spaces, and tokens
\* of the right length that the store knows or does not know.
LongToken == Rep("k", TokenLen + 1)

ShapeHeaders ==
    {Bearer, BearerHeader(<<>>), BearerHeader(ShortToken), BearerHeader(LongToken),
     BearerHeader(KnownToken) \o <<SP, "x">>, Bearer \o <<SP, SP>> \o KnownToken,
     BearerHeader(KnownToken), BearerHeader(UnknownToken)}

NextShape ==
    \/ \E i \in 1..MaxChain, hdr \in ShapeHeaders : Quiet /\ Arrive(i, "a", hdr, "open")
    \/ \E i \in 1..MaxChain : RateLimitStep(i)
    \/ \E i \in 1..MaxChain : AuthHeader(i)
    \/ \E i \in 1..MaxChain, fault \in {"none", "error"} : AuthLookup(i, fault)
    \/ \E i \in 1..MaxChain : HandlerStep(i)

SpecShape == InitOneRate /\ [][NextShape]_vars

\* SpecWriter: up to MaxChain handlers, one after the other and each with
\* a metricsResponseWriter of its own, call WriteHeader (with either of two
\* statuses), Write and Header().Set in any order, up to MaxCalls writing
\* calls each.  No WriteHeader is called with 200, so that a writer that
\* sent 200 is one whose first writing call was Write.
WriterStatuses == {StatusUnauthorized, StatusInternalServerError}

InitWriter == InitFor([enabled |-> FALSE, rps |-> 1, burst |-> 1])

NextWriter ==
    \/ \E i \in 1..MaxChain : WrapperNew(i)
    \/ \E i \in 1..MaxChain, statusCode \in WriterStatuses :
          WrapperWriteHeader(i, statusCode)
    \/ \E i \in 1..MaxChain : WrapperWrite(i)
    \/ \E i \in 1..MaxChain : WrapperHeader(i)
    \/ \E i \in 1..MaxChain : WrapperReturn(i)

SpecWriter == InitWriter /\ [][NextWriter]_vars

\* SpecSlow: one identity sends up to MaxConc requests one after the
\* other under -limiter-rps=0, a bucket that is never refilled: the slowest
\* of the rates at which 3 minutes do not refill a bucket (rps * 180 <
\* burst).  The sweep goroutine runs; the clock advances between requests.
InitSlow ==
    \E burst \in 1..MaxBurst : InitFor([enabled |-> TRUE, rps |-> 0, burst |-> burst])

NextSlow ==
    \/ \E i \in 1..MaxConc : Quiet /\ Arrive(i, "a", NoHeader, "open")
    \/ \E i \in 1..MaxConc : RateLimitStep(i)
    \/ \E i \in 1..MaxConc : AuthHeader(i)
    \/ \E i \in 1..MaxConc : HandlerStep(i)
    \/ Sweep
    \/ Quiet /\ now % Minute = 0 /\ Tick(1)
    \/ Quiet /\ Tick(Minute)

SpecSlow == InitSlow /\ [][NextSlow]_vars

\* ---------------------------------------------------------- claims ----
\* The decisions taken for identity ip, in order.
Decisions(ip) == SelectSeq(log, LAMBDA e : e.ip = ip)

\* Decisions k..k+n of L were taken on one bucket, created by decision k,
\* with no time elapsing between them.
BurstAt(L, k, n) ==
    /\ k + n <= Len(L)
    /\ L[k].fresh
    /\ \A m \in k + 1..k + n : ~L[m].fresh /\ L[m].at = L[k].at

\* After the burst of burst+1 decisions at k, decision k+burst+1 was taken
\* on the same bucket at least 1/rps seconds later.
WaitedAfterBurst(L, k) ==
    LET n == k + config.burst + 1
    IN  /\ BurstAt(L, k, config.burst)
        /\ n <= Len(L)
        /\ ~L[n].fresh
        /\ (L[n].at - L[k].at) * config.rps >= OneToken

\* The burst is admitted, the request after it denied, and the first
\* request after the wait admitted.
BurstThenWait(L) ==
    \A k \in 1..Len(L) :
        /\ \A j \in 0..config.burst - 1 : BurstAt(L, k, j) => L[k + j].ok
        /\ BurstAt(L, k, config.burst) => ~L[k + config.burst].ok
        /\ WaitedAfterBurst(L, k) => L[k + config.burst + 1].ok

\* The request sent right after the one admitted after the wait.
SecondAfterWait(L, k) ==
    LET n == k + config.burst + 2
    IN  /\ WaitedAfterBurst(L, k)
        /\ n <= Len(L)
        /\ ~L[n].fresh
        /\ L[n].at = L[n - 1].at

\* C1 (as stated): from a fresh bucket, burst requests with no time elapsing
\* are admitted and the next is denied; after at least 1/rps seconds the
\* next request is admitted and the one right after it is denied.
C1_AsStated ==
    \A ip \in IPs :
        LET L == Decisions(ip)
        IN  /\ BurstThenWait(L)
            /\ \A k \in 1..Len(L) :
                   SecondAfterWait(L, k) => ~L[k + config.burst + 2].ok

\* C1 (amended): as stated, but the request right after the one admitted after the
\* wait being denied when the wait was shorter than 2/rps seconds or the
\* burst is 1 (a longer wait refills more than one token).
C1_BurstThenOne ==
    \A ip \in IPs :
        LET L == Decisions(ip)
        IN  /\ BurstThenWait(L)
            /\ \A k \in 1..Len(L) :
                   /\ SecondAfterWait(L, k)
                   /\ \/ config.burst = 1
                      \/ (L[k + config.burst + 1].at - L[k].at) * config.rps
                             < 2 * OneToken
                   => ~L[k + config.burst + 2].ok

\* A burst of 2 or more, the wait of at least 1/rps and less than 2/rps
\* seconds, one request admitted and the next denied.
C1_Witness ==
    LET L == Decisions("a")
        n == config.burst + 2
    IN  /\ config.burst >= 2
        /\ SecondAfterWait(L, 1)
        /\ (L[n].at - L[1].at) * config.rps < 2 * OneToken
        /\ L[n].ok
        /\ ~L[n + 1].ok

\* C2: every entry of the registry holds between 0 tokens and its burst,
\* in what the limiter stores and in what it has available now.
Capacity == config.burst * OneToken

C2_TokensInRange ==
    \A ip \in DOMAIN clients :
        LET lim == clients[ip].limiter
        IN  /\ 0 <= lim.tokens /\ lim.tokens <= Capacity
            /\ 0 <= Tokens(lim, now) /\ Tokens(lim, now) <= Capacity

\* An entry emptied by its requests, one of them denied, then idle for a
\* minute or more: the refill is far beyond the burst and is cut to it.
C2_Witness ==
    /\ "a" \in DOMAIN clients
    /\ clients["a"].limiter.tokens = 0
    /\ \E k \in 1..Len(log) : ~log[k].ok
    /\ now - clients["a"].limiter.last >= Minute
    /\ Tokens(clients["a"].limiter, now) = Capacity
    /\ sweeper.pc = "scan"

\* The requests of identity ip that have arrived.
RequestsOf(ip) == {i \in Reqs : req[i].pc # "idle" /\ req[i].ip = ip}

\* The decisions L were taken on one fresh bucket with no time elapsing.
OneBurst(L) ==
    /\ Len(L) >= 1
    /\ L[1].fresh
    /\ \A k \in 2..Len(L) : ~L[k].fresh /\ L[k].at = L[1].at

\* C3: when the N > burst concurrent requests of one identity, taken on a
\* fresh bucket with no time elapsing, have all completed, exactly burst of
\* them were admitted and reached the next handler, the other N - burst
\* received 429, and the bucket holds exactly 0 tokens; and at no point
\* were more than burst admitted.
C3_ExactlyBurstAdmitted ==
    \A ip \in IPs :
        LET L == Decisions(ip)
            R == RequestsOf(ip)
            admitted == {i \in R : /\ req[i].decision = "admit"
                                   /\ req[i].nextCalls = 1
                                   /\ req[i].w.wire = StatusOK}
            denied == {i \in R : /\ req[i].decision = "deny"
                                 /\ req[i].nextCalls = 0
                                 /\ req[i].w.wire = StatusTooManyRequests}
        IN  config.enabled /\ OneBurst(L) =>
              /\ Cardinality({k \in 1..Len(L) : L[k].ok}) = Min(Len(L), config.burst)
              /\ (\A i \in R : req[i].pc = "done") /\ Cardinality(R) > config.burst =>
                    /\ Cardinality(admitted) = config.burst
                    /\ Cardinality(denied) = Cardinality(R) - config.burst
                    /\ clients[ip].limiter.tokens = 0

\* Three requests of one identity on a bucket of 2, all completed, the one
\* that arrived last decided first.
C3_Witness ==
    /\ config.enabled
    /\ config.burst = 2
    /\ RequestsOf("a") = 1..3
    /\ \A i \in 1..3 : req[i].pc = "done"
    /\ log[1].by = 3
    /\ ~log[3].ok

\* The decisions L replayed on a bucket of their own give the outcomes L
\* records.
RECURSIVE Replays(_, _, _)
Replays(L, k, lim) ==
    IF k > Len(L) THEN TRUE
    ELSE LET res == Allow(IF L[k].fresh THEN NewLimiter(config.rps, config.burst)
                                         ELSE lim, L[k].at)
         IN  res.ok = L[k].ok /\ Replays(L, k + 1, res.lim)

\* A step of request i leaves the entry of every identity but its own as
\* it is.
FrameOf(i) ==
    req'[i] # req[i] =>
        \A b \in IPs \ {req'[i].ip} :
            /\ b \in DOMAIN clients' <=> b \in DOMAIN clients
            /\ b \in DOMAIN clients => clients'[b] = clients[b]

\* C4: a request of one identity leaves the entry of every other identity
\* unchanged, and the outcomes of each identity's requests are those its own
\* requests alone give on its own bucket.
C4_NoInterference ==
    /\ [][\A i \in Reqs : FrameOf(i)]_vars
    /\ [](\A ip \in IPs : Replays(Decisions(ip), 1, NewLimiter(config.rps, config.burst)))

\* Identity a has exhausted its bucket and been denied, and a request of b
\* decided after that is admitted.
C4_Witness ==
    \E j, k \in 1..Len(log) :
        /\ j < k
        /\ log[j].ip = "a" /\ ~log[j].ok
        /\ log[k].ip = "b" /\ log[k].ok
        /\ req[log[k].by].pc = "done"

\* The sweep releases the lock.
SweepReleases == sweeper.pc = "scan" /\ sweeper'.pc = "sleep"

\* C5: an entry whose lastSeen was more than 3 minutes in the past when a
\* sweep took the lock is absent when that sweep releases it; a request
\* that finds no entry creates one with a full bucket and is admitted.
C5_EvictedThenFresh ==
    /\ [][SweepReleases =>
            \A ip \in DOMAIN clients' :
                ~(sweeper.since - clients'[ip].lastSeen > EvictMinutes * Minute)]_vars
    /\ [](\A i \in Reqs :
            req[i].pc \in {"rl_seen", "rl_allow"} /\ ~req[i].found =>
                /\ req[i].ip \in DOMAIN clients
                /\ clients[req[i].ip].limiter.tokens = Capacity)
    /\ [](\A k \in 1..Len(log) : log[k].fresh => log[k].ok)

\* A bucket of 1 emptied by an admitted request, a second request denied,
\* the entry evicted, and the third request admitted on a new entry.
C5_Witness ==
    LET L == Decisions("a")
    IN  /\ config.burst = 1
        /\ Len(L) = 3
        /\ L[1].fresh /\ L[1].ok
        /\ ~L[2].fresh /\ ~L[2].ok
        /\ L[3].fresh /\ L[3].ok
        /\ req[L[3].by].pc = "done"
        /\ req[L[3].by].w.wire = StatusOK

\* The program points of rateLimit's handler.
RLPcs ==
    {"rl_lock", "rl_lookup", "rl_create", "rl_seen", "rl_allow",
     "rl_deny_unlock", "rl_deny_resp", "rl_admit_unlock"}

\* C6: with the limiter disabled at construction no request enters
\* rateLimit's handler, the lock is never taken, no entry is created, no
\* sweep goroutine runs, and every request is passed to the next handler
\* and served.
C6_DisabledPassesAll ==
    ~config.enabled =>
        /\ ~mu
        /\ clients = NoClients
        /\ sweeper.pc = "off"
        /\ log = <<>>
        /\ chain = <<"recoverPanic", "authenticate", "router">>
        /\ \A i \in Reqs :
              /\ req[i].pc \notin RLPcs
              /\ req[i].decision = "none"
              /\ req[i].pc \notin {"idle", "au_header"} =>
                    req[i].user = AnonymousUser /\ req[i].handlerRuns = 1
              /\ req[i].pc = "done" => req[i].w.wire = StatusOK

\* Limiter disabled: three requests served at the same instant, and one
\* more than a minute later.
C6_Witness ==
    /\ ~config.enabled
    /\ now > Minute
    /\ \A i \in 1..3 : req[i].pc = "done" /\ req[i].w.wire = StatusOK

\* C7: every request in which an inner stage or the route handler panicked
\* ends with exactly one response, of status 500 and with Connection:
\* close, whether or not the handler had written before it panicked.
C7_PanicYields500 ==
    \A i \in Reqs :
        req[i].panicAt # "" =>
            /\ req[i].pc \in {"rp_recover", "done"}
            /\ req[i].pc = "done" =>
                  /\ req[i].recovered = 1
                  /\ req[i].w.wire = StatusInternalServerError
                  /\ req[i].w.close
                  /\ req[i].w.body = <<"server error">>

\* The program points of authenticate and of the route handlers.
AuthPcs == {"au_header", "au_lookup"}
RoutePcs == {"rt_handler", "rt_wrote"}

\* C8: recoverPanic's deferred function is installed before any other
\* stage runs; the Authorization header is examined only after the request
\* was admitted by the rate limiter; a route handler or authorization
\* stage runs only with a principal attached; a panic in rateLimit or
\* authenticate is recovered.
C8_FixedOrder ==
    \A i \in Reqs :
        LET r == req[i]
        IN  /\ r.pc # "idle" => r.deferred
            /\ r.pc # "aborted"
            /\ r.pc \in RLPcs =>
                  r.user = NoUser /\ r.lookups = 0 /\ r.handlerRuns = 0
            /\ config.enabled /\ (r.pc \in AuthPcs \/ r.user # NoUser \/ r.lookups > 0) =>
                  r.decision = "admit"
            /\ r.pc \in RoutePcs \/ r.handlerRuns > 0 => r.user # NoUser
            /\ r.panicAt # "contextGetUser"
            /\ r.panicAt \in {"rateLimit", "authenticate"} /\ r.pc = "done" =>
                  r.recovered = 1 /\ r.w.wire = StatusInternalServerError

\* An admitted request whose token-store lookup panicked was answered by
\* the recovery stage, and another one reached a movie handler as alice.
C8_Witness ==
    /\ config.enabled
    /\ \E i \in Reqs :
          /\ req[i].pc = "done"
          /\ req[i].decision = "admit"
          /\ req[i].panicAt = "authenticate"
          /\ req[i].recovered = 1
    /\ \E i \in Reqs :
          /\ req[i].pc = "rt_handler"
          /\ req[i].route = "movies"
          /\ req[i].user.id = "alice"

\* C9: a denied request gets the 429 response and nothing of the inner
\* chain runs for it (no token-store lookup, no principal, no route
\* handler); an admitted request calls the inner chain exactly once.
C9_DeniedShortCircuits ==
    \A i \in Reqs :
        LET r == req[i]
        IN  /\ r.decision = "deny" =>
                  /\ r.pc \in {"rl_deny_unlock", "rl_deny_resp", "done"}
                  /\ r.nextCalls = 0
                  /\ r.lookups = 0
                  /\ r.user = NoUser
                  /\ r.handlerRuns = 0
                  /\ r.pc = "done" =>
                        /\ r.w.wire = StatusTooManyRequests
                        /\ r.w.writes = 1
                        /\ r.w.body = <<"rate limit exceeded">>
            /\ r.decision = "admit" =>
                  r.nextCalls = IF r.pc = "rl_admit_unlock" THEN 0 ELSE 1

\* One request was admitted and served, the next was denied with 429.
C9_Witness ==
    \E i, j \in Reqs :
        /\ req[i].pc = "done" /\ req[i].decision = "admit"
        /\ req[i].handlerRuns = 1 /\ req[i].nextCalls = 1
        /\ req[j].pc = "done" /\ req[j].decision = "deny"
        /\ req[j].w.wire = StatusTooManyRequests

\* The critical section of rateLimit's handler, and the requests in it.
CriticalPcs ==
    {"rl_lookup", "rl_create", "rl_seen", "rl_allow",
     "rl_deny_unlock", "rl_admit_unlock"}
Holders == {i \in Reqs : req[i].pc \in CriticalPcs}

\* C10: mu is held exactly while one request is between its Lock and its
\* Unlock or the sweep is scanning, never while a request is in the inner
\* chain or writes the 429 response; so whenever nobody is in a critical
\* section a waiting request and a waiting sweep can take the lock, however
\* many requests are still with their downstream handler.
C10_LockOnlyInCriticalSection ==
    /\ mu <=> (Holders # {} \/ sweeper.pc = "scan")
    /\ Cardinality(Holders) + (IF sweeper.pc = "scan" THEN 1 ELSE 0) <= 1
    /\ Holders = {} /\ sweeper.pc # "scan" =>
          /\ \A j \in 1..MaxConc : req[j].pc = "rl_lock" => ENABLED RLLock(j)
          /\ sweeper.pc = "lock" => ENABLED SweepLock

\* One request is still in its route handler and another is about to
\* write its 429 while the sweep holds the lock and scans.
C10_Witness ==
    /\ mu
    /\ sweeper.pc = "scan"
    /\ \E i, j \in Reqs :
          /\ req[i].pc = "rt_handler"
          /\ req[j].pc = "rl_deny_resp"

\* The request is past the authentication stage: with the router, or done
\* without having been denied by the rate limiter.
PastAuth(r) == r.pc \in RoutePcs \cup {"rp_recover", "done"} /\ r.decision # "deny"

\* C11: a request without Authorization header leaves authenticate with
\* the anonymous principal attached and with no token-store lookup made; a
\* route wrapped in requireAuthenticatedUser answers it with 401 and its
\* handler does not run.
C11_AnonymousRejected ==
    \A i \in Reqs :
        LET r == req[i]
        IN  r.hdr = NoHeader /\ PastAuth(r) =>
                /\ r.user = AnonymousUser
                /\ r.authNext = 1
                /\ r.lookups = 0
                /\ r.route = "movies" =>
                      /\ r.pc = "done"
                      /\ r.handlerRuns = 0
                      /\ r.w.wire = StatusUnauthorized
                      /\ r.w.body = <<"authentication required">>

\* A request without header to a movie route was answered with 401.
C11_Witness ==
    \E i \in Reqs :
        /\ req[i].hdr = NoHeader /\ req[i].route = "movies"
        /\ req[i].pc = "done" /\ req[i].authNext = 1
        /\ req[i].user = AnonymousUser
        /\ req[i].w.wire = StatusUnauthorized

\* The Authorization header is Bearer and a token the store resolves.
KnownHeader == BearerHeader(KnownToken)
InactiveHeader == BearerHeader(InactiveToken)
Resolves(hdr) == hdr = KnownHeader \/ hdr = InactiveHeader

\* The token of such a header: what follows "Bearer ".
TokenOf(hdr) == SubSeq(hdr, Len(Bearer) + 2, Len(hdr))

\* C12: when authenticate hands on a request whose header is Bearer and a
\* 26-character token that the store resolves to U, the principal attached
\* is exactly U after one lookup; a route wrapped in requireActivatedUser
\* runs its handler if and only if U is activated, and answers 403 if not.
C12_ResolvedPrincipal ==
    \A i \in Reqs :
        LET r == req[i]
            U == GetForToken(TokenOf(r.hdr))
        IN  PastAuth(r) /\ Resolves(r.hdr) =>
                /\ Len(TokenOf(r.hdr)) = TokenLen
                /\ r.lookups = 1
                /\ r.authNext = 0 => r.user = NoUser /\ r.handlerRuns = 0
                /\ r.authNext = 0 /\ r.pc = "done" =>
                      r.w.wire = StatusInternalServerError
                /\ r.authNext = 1 =>
                      /\ r.user = U
                      /\ r.route = "movies" =>
                            /\ r.handlerRuns = (IF U.activated THEN 1 ELSE 0)
                            /\ ~U.activated =>
                                  r.pc = "done" /\ r.w.wire = StatusForbidden

\* Both resolved principals were seen on a movie route: the handler of the
\* activated one ran, the inactive one got 403.
C12_Witness ==
    \E i, j \in Reqs :
        /\ req[i].hdr = KnownHeader /\ req[i].route = "movies"
        /\ req[i].user.id = "alice" /\ req[i].handlerRuns = 1
        /\ req[i].pc = "done" /\ req[i].w.wire = StatusOK
        /\ req[j].hdr = InactiveHeader /\ req[j].route = "movies"
        /\ req[j].user.id = "bob" /\ req[j].handlerRuns = 0
        /\ req[j].pc = "done" /\ req[j].w.wire = StatusForbidden

\* C13 (as stated): a request with a wrong-scheme Authorization header is
\* answered with the 401 invalid-credentials response whatever the state
\* of the caller's bucket and of the token store.
C13_AsStated ==
    \A i \in Reqs :
        req[i].hdr = BasicHeader /\ req[i].pc = "done" =>
            /\ req[i].w.wire = StatusUnauthorized
            /\ req[i].w.body = <<"invalid credentials">>

\* C13 (amended): a request with a wrong-scheme Authorization header that
\* the rate limiter admits, or that meets a disabled limiter, is answered
\* with the 401 invalid-credentials response without any token-store
\* lookup, principal or next handler; one whose bucket is exhausted is
\* answered with 429 before its header is looked at.
C13_WrongSchemeAfterAdmission ==
    \A i \in Reqs :
        LET r == req[i]
        IN  r.hdr = BasicHeader /\ r.pc # "idle" =>
                /\ r.lookups = 0 /\ r.authNext = 0 /\ r.user = NoUser
                /\ r.handlerRuns = 0 /\ r.panicAt = ""
                /\ r.pc = "done" =>
                      IF r.decision = "deny"
                      THEN r.w.wire = StatusTooManyRequests
                      ELSE /\ r.w.wire = StatusUnauthorized
                           /\ r.w.body = <<"invalid credentials">>
                           /\ r.w.writes = 1

\* Two wrong-scheme requests of one caller: the admitted one got 401, the
\* one that found the bucket empty got 429.
C13_Witness ==
    \E i, j \in Reqs :
        /\ req[i].hdr = BasicHeader /\ req[i].pc = "done"
        /\ req[i].decision = "admit" /\ req[i].w.wire = StatusUnauthorized
        /\ req[j].hdr = BasicHeader /\ req[j].pc = "done"
        /\ req[j].decision = "deny" /\ req[j].w.wire = StatusTooManyRequests

\* C14: when the token-store lookup of authenticate returns an error the
\* request ends there: ErrRecordNotFound with the 401 invalid-token
\* response, any other error with the 500 server-error response, in both
\* cases with no principal attached and without the next handler.
C14_LookupFailureRejects ==
    \A i \in Reqs :
        LET r == req[i]
        IN  r.err # "nil" =>
                /\ r.pc = "done"
                /\ r.user = NoUser
                /\ r.authNext = 0
                /\ r.handlerRuns = 0
                /\ r.w.writes = 1
                /\ r.err = "ErrRecordNotFound" =>
                      /\ r.w.wire = StatusUnauthorized
                      /\ r.w.body = <<"invalid token">>
                /\ r.err = "other" =>
                      /\ r.w.wire = StatusInternalServerError
                      /\ r.w.body = <<"server error">>

\* One lookup did not find the token (401), another failed otherwise (500).
C14_Witness ==
    \E i, j \in Reqs :
        /\ req[i].err = "ErrRecordNotFound" /\ req[i].pc = "done"
        /\ req[i].w.wire = StatusUnauthorized
        /\ req[j].err = "other" /\ req[j].pc = "done"
        /\ req[j].w.wire = StatusInternalServerError

\* C15: on a route wrapped in requireActivatedUser the handler runs if and
\* only if the principal is not the anonymous one and is activated; the
\* anonymous principal gets the 401 authentication-required response,
\* never the 403, and an authenticated inactive one the 403
\* inactive-account response.
C15_ActivatedOnly ==
    \A i \in Reqs :
        LET r == req[i]
        IN  r.route = "movies" /\ r.user # NoUser =>
                /\ r.handlerRuns = (IF ~IsAnonymous(r.user) /\ r.user.activated
                                    THEN 1 ELSE 0)
                /\ IsAnonymous(r.user) =>
                      /\ r.pc = "done"
                      /\ r.w.wire = StatusUnauthorized
                      /\ r.w.body = <<"authentication required">>
                /\ ~IsAnonymous(r.user) /\ ~r.user.activated =>
                      /\ r.pc = "done"
                      /\ r.w.wire = StatusForbidden
                      /\ r.w.body = <<"inactive account">>

\* An anonymous request got 401 and an inactive account 403 on a movie
\* route.
C15_Witness ==
    \E i, j \in Reqs :
        /\ req[i].route = "movies" /\ req[i].user = AnonymousUser
        /\ req[i].pc = "done" /\ req[i].w.wire = StatusUnauthorized
        /\ req[j].route = "movies" /\ req[j].user.id = "bob"
        /\ req[j].pc = "done" /\ req[j].w.wire = StatusForbidden

\* C16: on a route wrapped in requirePermission(code, next) an
\* authenticated, activated principal whose permission set lacks code is
\* rejected without next; next runs only for a principal whose set holds
\* code.
C16_PermissionRequired ==
    \A i \in Reqs :
        LET r == req[i]
        IN  r.route = "perm" /\ r.user # NoUser =>
                /\ r.handlerRuns > 0 =>
                      Include(GetAllForuser(r.user.id), MoviesRead)
                /\ /\ ~IsAnonymous(r.user) /\ r.user.activated
                   /\ ~Include(GetAllForuser(r.user.id), MoviesRead)
                   /\ r.pc = "done"
                   => r.handlerRuns = 0 /\ r.w.wire # StatusOK

\* The routes whose wrapper reads the principal with contextGetUser.
GuardedRoutes == {"movies", "authed", "perm"}

\* The handler of a guarded route runs for principal user.
Passes(route, user) ==
    ~IsAnonymous(user) /\ (route = "authed" \/ user.activated)

\* C17: contextGetUser panics on a request that carries no principal, and
\* the wrapper that called it neither answers as for some principal nor
\* runs the handler; on a request that carries one it returns exactly that
\* principal, and the wrapper decides by it.
C17_MissingPrincipalPanics ==
    /\ contextGetUser(IdleReq) = Panicked
    /\ \A user \in GuardUsers \ {NoUser} :
          contextGetUser(contextSetUser(IdleReq, user)) = user
    /\ \A i \in Reqs :
          LET r == req[i]
          IN  r.route \in GuardedRoutes =>
                  IF r.user = NoUser
                  THEN /\ r.panicAt = "contextGetUser"
                       /\ r.handlerRuns = 0
                       /\ r.w.wire \in {0, StatusInternalServerError}
                  ELSE /\ r.panicAt # "contextGetUser"
                       /\ r.handlerRuns = (IF Passes(r.route, r.user) THEN 1 ELSE 0)

\* A request without principal reached a guarded route and the panic of
\* contextGetUser was recovered; one with a principal was served.
C17_Witness ==
    \E i, j \in Reqs :
        /\ req[i].route = "authed" /\ req[i].user = NoUser
        /\ req[i].panicAt = "contextGetUser" /\ req[i].pc = "done"
        /\ req[i].recovered = 1
        /\ req[j].route = "authed" /\ req[j].user = Carol
        /\ req[j].pc = "done" /\ req[j].handlerRuns = 1

\* The context of a request as the server made it.
ServerContext == [user |-> NoUser, server |-> "srv"]

\* C18: contextSetUser(r, p) yields a request that carries p and the
\* context values r had, and leaves r as it was: the request the server
\* and the outer stages hold never shows a principal, whatever the inner
\* stages attached.
C18_OriginalUntouched ==
    /\ \A p \in GuardUsers \ {NoUser} :
          LET q == contextSetUser(IdleReq, p)
          IN  q.user = p /\ q.server = IdleReq.server /\ q.orig = IdleReq.orig
    /\ \A i \in Reqs :
          LET r == req[i]
          IN  r.pc # "idle" =>
                  /\ r.orig = ServerContext
                  /\ r.server = ServerContext.server
                  /\ r.authNext = 1 => r.user # NoUser

\* A handler runs for alice while the request the outer stages hold still
\* has no principal.
C18_Witness ==
    \E i \in Reqs :
        /\ req[i].pc = "rt_handler"
        /\ req[i].user.id = "alice"
        /\ req[i].orig.user = NoUser
        /\ req[i].server = "srv"

\* The status the client of a finished request received.
StatusWritten(w) == IF w.wire = 0 THEN StatusOK ELSE w.wire

\* C19: the per-status counter incremented for a request is the one of the
\* status the downstream code wrote, 200 only when that was 200 or none.
C19_CountsWrittenStatus ==
    \A i \in Reqs :
        req[i].metered /\ req[i].pc \in {"mx_time", "done"} =>
            req[i].counted = StatusWritten(req[i].w)

\* The sum of the per-status counters.
RECURSIVE SumOver(_, _)
SumOver(mp, keys) ==
    IF keys = {} THEN 0
    ELSE LET k == CHOOSE x \in keys : TRUE
         IN  mp[k] + SumOver(mp, keys \ {k})
SumByStatus == SumOver(expvars.byStatus, DOMAIN expvars.byStatus)

\* The requests at one of the given program points of the metrics stage.
At(pcs) == {i \in Reqs : req[i].metered /\ req[i].pc \in pcs}

\* C20 (as stated): in every state responses-sent <= requests-received
\* and the per-status counters sum to responses-sent.
C20_AsStated ==
    /\ expvars.sent <= expvars.received
    /\ SumByStatus = expvars.sent

\* No counter decreases and no key of the map goes away.
CountersGrow ==
    /\ expvars'.received >= expvars.received
    /\ expvars'.sent >= expvars.sent
    /\ expvars'.micros >= expvars.micros
    /\ \A k \in DOMAIN expvars.byStatus :
          k \in DOMAIN expvars'.byStatus /\ expvars'.byStatus[k] >= expvars.byStatus[k]

\* C20 (amended): under every interleaving requests-received counts the
\* requests that entered the stage, responses-sent those whose inner chain
\* returned and that made the sent increment, and the per-status counters
\* sum to responses-sent less the requests that stand between the sent
\* increment and their per-status increment; once all K requests have
\* completed all three are K; no counter ever decreases.
C20_NoLostUpdate ==
    /\ [](/\ expvars.received = Cardinality({i \in Reqs : req[i].metered})
          /\ expvars.sent = Cardinality(At({"mx_status", "mx_time", "done"}))
          /\ expvars.sent <= expvars.received
          /\ SumByStatus = expvars.sent - Cardinality(At({"mx_status"}))
          /\ (\A i \in 1..MaxChain : req[i].pc = "done") =>
                /\ expvars.received = MaxChain
                /\ expvars.sent = MaxChain
                /\ SumByStatus = MaxChain)
    /\ [][CountersGrow]_vars

\* Two requests run through the stage concurrently: both have made the
\* sent increment and neither its per-status increment.
C20_Witness ==
    /\ At({"mx_status"}) = {1, 2}
    /\ expvars.received = 2 /\ expvars.sent = 2 /\ SumByStatus = 0

\* origin is an entry of the list.
Trusted(trusted, origin) == \E k \in 1..Len(trusted) : trusted[k] = origin

\* C21: enableCORS sets Access-Control-Allow-Origin exactly when Origin is
\* non-empty and an entry of the trusted list, to that origin; it sets
\* Access-Control-Allow-Methods and -Headers only when also the method is
\* OPTIONS and Access-Control-Request-Method is present; it always calls
\* next exactly once and writes no response of its own.
C21_CorsHeaders ==
    \A i \in Reqs :
        LET r == req[i]
            match == r.origin # "" /\ Trusted(config.trusted, r.origin)
            preflight == match /\ r.method = "OPTIONS" /\ r.acrm # ""
        IN  r.pc # "idle" =>
                /\ r.cors.acao = (IF match THEN <<r.origin>> ELSE <<>>)
                /\ r.cors.acam # <<>> <=> preflight
                /\ r.cors.acah # <<>> <=> preflight
                /\ r.cors.vary = <<"Origin", "Access-Control-Request-Method">>
                /\ r.corsNext = 1
                /\ r.handlerRuns = 1
                /\ r.w.wire \in {0, StatusOK}

\* A preflight of a trusted origin got all three headers and a request of
\* an untrusted origin none, and both were served.
C21_Witness ==
    \E i, j \in Reqs :
        /\ req[i].pc = "done" /\ req[i].origin = "o2" /\ req[i].method = "OPTIONS"
        /\ req[i].cors.acao = <<"o2">> /\ req[i].cors.acam # <<>>
        /\ req[j].pc = "done" /\ req[j].origin = "o3"
        /\ req[j].cors.acao = <<>> /\ req[j].w.wire = StatusOK

\* The step is one of request i alone.
StepOf(i) == req'[i] # req[i] /\ \A j \in Reqs \ {i} : req'[j] = req[j]

\* C22: at most one of the request goroutines and the sweep is between
\* Lock and Unlock; so the registry changes only by a step of the one that
\* holds the lock, the entry a request looked up or created is still there
\* at its lastSeen update and its Allow, and no request panics in rateLimit.
C22_MutualExclusion ==
    /\ [](Cardinality(Holders) + (IF sweeper.pc = "scan" THEN 1 ELSE 0) <= 1)
    /\ [](\A i \in Reqs :
            /\ req[i].pc \in {"rl_seen", "rl_allow"} =>
                  ClientKey(req[i]) \in DOMAIN clients
            /\ req[i].panicAt # "rateLimit")
    /\ [][clients' # clients =>
            \/ \E i \in Holders : StepOf(i)
            \/ sweeper.pc = "scan" /\ sweeper' # sweeper /\ req' = req]_vars

\* A request holds the lock on an entry old enough to be evicted while the
\* sweep waits for the lock.
C22_Witness ==
    \E i \in Reqs :
        /\ req[i].pc = "rl_seen" /\ req[i].found
        /\ now - clients["a"].lastSeen > EvictMinutes * Minute
        /\ sweeper.pc = "lock"
        /\ mu

\* The decisions of identity ip taken on an entry the request created, and
\* those that admitted.
Created(ip) == {k \in 1..Len(log) : log[k].ip = ip /\ log[k].fresh}
Admitted(ip) == {k \in 1..Len(log) : log[k].ip = ip /\ log[k].ok}

\* C23: however the first requests of an unseen identity interleave, one
\* of them creates the bucket and all of them debit it; a request never
\* replaces the bucket of an entry that is there, it only debits it.
C23_OneBucketPerIdentity ==
    /\ [](\A ip \in IPs :
            /\ Cardinality(Created(ip)) <= 1
            /\ Decisions(ip) # <<>> => Decisions(ip)[1].fresh
            /\ ip \in DOMAIN clients =>
                  clients[ip].limiter.tokens =
                      Capacity - OneToken * Cardinality(Admitted(ip)))
    /\ [][\A ip \in DOMAIN clients :
            /\ ip \in DOMAIN clients'
            /\ clients'[ip].limiter # clients[ip].limiter =>
                  clients'[ip].limiter =
                      Allow(clients[ip].limiter, now).lim]_vars

\* Three requests of one unseen identity ran concurrently: the first to
\* take the lock created the bucket, the others found it.
C23_Witness ==
    LET L == Decisions("a")
    IN  /\ Len(L) = 3
        /\ L[1].fresh /\ ~L[2].fresh /\ ~L[3].fresh
        /\ L[1].by # 1
        /\ DOMAIN clients = {"a"}

\* The step takes a decision, and the decision it takes.
Decides == Len(log') = Len(log) + 1
Decided == log'[Len(log')]

\* How far ahead the refill of a bucket is looked at: long enough to fill
\* any bucket at the slowest rate.
Horizon == MaxBurst * OneToken

\* C24: a denial leaves the bucket as the refill alone makes it: right
\* after it the identity has the refilled count (tokens + elapsed * rate,
\* cut at the capacity) of before, fractions of a token included, and at
\* every later time what it would have had without the denied request.
C24_DenialDebitsNothing ==
    [][Decides /\ ~Decided.ok =>
         LET old == clients[Decided.ip].limiter
             new == clients'[Decided.ip].limiter
         IN  /\ Tokens(new, now) =
                    Min(Capacity, old.tokens + (now - old.last) * old.limit)
             /\ Tokens(new, now) < OneToken
             /\ \A d \in 0..Horizon : Tokens(new, now + d) = Tokens(old, now + d)]_vars

\* With half a token refilled per tick: a request is denied twice on half
\* a token and admitted one tick later, when the token is whole.
C24_Witness ==
    LET L == Decisions("a")
    IN  /\ config.rps = 1 /\ config.burst = 1
        /\ Len(L) = 4
        /\ L[1].ok /\ ~L[2].ok /\ ~L[3].ok /\ L[4].ok
        /\ L[2].at = L[1].at + 1 /\ L[3].at = L[2].at /\ L[4].at = L[3].at + 1

Scans(ip) == sweeper.pc = "scan" /\ ip \in sweeper.todo /\ ip \notin sweeper'.todo

Shaped(hdr) ==
    LET parts == Split(hdr)
    IN  /\ Len(parts) = 2
        /\ parts[1] = Bearer
        /\ Len(parts[2]) = TokenLen

\* C28: the token store is consulted only for a header of two parts whose
\* token has exactly 26 characters; a request with any other non-empty
\* header that reaches authenticate ends there with the 401
\* invalid-credentials response: no lookup, no principal, no next handler.
C28_ShapeCheckedBeforeLookup ==
    \A i \in Reqs :
        LET r == req[i]
        IN  r.hdr # NoHeader /\ r.pc # "idle" =>
                /\ r.lookups > 0 \/ r.pc = "au_lookup" => Shaped(r.hdr)
                /\ ~Shaped(r.hdr) =>
                      /\ r.lookups = 0 /\ r.authNext = 0 /\ r.user = NoUser
                      /\ r.handlerRuns = 0
                      /\ r.pc \in RLPcs \cup {"au_header", "done"}
                      /\ r.pc = "done" /\ r.decision # "deny" =>
                            /\ r.w.wire = StatusUnauthorized
                            /\ r.w.body = <<"invalid credentials">>
                            /\ r.w.writes = 1

\* A token of 27 characters and a header of three parts were both answered
\* with 401 by authenticate.
C28_Witness ==
    \E i, j \in Reqs :
        /\ req[i].hdr = BearerHeader(LongToken)
        /\ req[j].hdr = BearerHeader(KnownToken) \o <<SP, "x">>
        /\ \A k \in {i, j} :
              /\ req[k].pc = "done" /\ req[k].decision # "deny"
              /\ req[k].w.wire = StatusUnauthorized /\ req[k].lookups = 0

\* How many of the responses written to w carry one of the messages.
Wrote(w, messages) == Cardinality({k \in 1..Len(w.body) : w.body[k] \in messages})

\* The rejection responses request r got from rateLimit, from authenticate
\* and from requireAuthenticatedUser / requireActivatedUser.
RejectedByRateLimit(r) == Wrote(r.w, {"rate limit exceeded"})
RejectedByAuthenticate(r) ==
    Wrote(r.w, {"invalid credentials", "invalid token"}) +
        (IF r.err = "other" THEN Wrote(r.w, {"server error"}) ELSE 0)
RejectedByGuards(r) == Wrote(r.w, {"authentication required", "inactive account"})

\* C29: for every request and each of rateLimit, authenticate and the two
\* authorization stages, a rejection response and a call of the next
\* handler exclude each other and neither happens twice; when the request
\* is over, each stage it reached without panicking inside has done
\* exactly one of the two; a rejection is the only status written for its
\* request; no request is decided, looked up or handled a second time.
C29_OneTerminalOutcome ==
    \A i \in Reqs :
        LET r == req[i]
            rl == RejectedByRateLimit(r)
            au == RejectedByAuthenticate(r)
            gd == RejectedByGuards(r)
            over == r.pc = "done"
        IN  /\ rl + r.nextCalls <= 1
            /\ au + r.authNext <= 1
            /\ gd + r.handlerRuns <= 1
            /\ rl + au + gd <= 1
            /\ rl + au + gd = 1 => r.w.writes = 1 /\ Len(r.w.body) = 1
            /\ Cardinality({k \in 1..Len(log) : log[k].by = i}) <= 1
            /\ r.lookups <= 1
            /\ rl = 1 <=> r.decision = "deny" /\ over
            /\ over /\ r.decision # "none" => rl + r.nextCalls = 1
            /\ over /\ r.decision # "deny" /\ r.panicAt # "authenticate" =>
                  au + r.authNext = 1
            /\ over /\ r.authNext = 1 /\ r.route = "movies" => gd + r.handlerRuns = 1

\* Two requests of one caller to a movie route are over: the one of an
\* account not yet activated was passed on by rateLimit and authenticate
\* and rejected with 403, the other was rejected by rateLimit.
C29_Witness ==
    \E i, j \in Reqs :
        /\ req[i].pc = "done" /\ req[i].route = "movies"
        /\ req[i].nextCalls = 1 /\ req[i].authNext = 1
        /\ RejectedByGuards(req[i]) = 1 /\ req[i].handlerRuns = 0
        /\ req[i].w.wire = StatusForbidden
        /\ req[j].pc = "done" /\ RejectedByRateLimit(req[j]) = 1
        /\ req[j].nextCalls = 0

\* C30: the status a metricsResponseWriter holds is 200 until the first
\* writing call; it changes only in a WriteHeader call made before any
\* other WriteHeader or Write, to the argument of that call, which is the
\* status the wrapped writer sends; and every call does to the wrapped
\* writer exactly what the same call made on it directly does.
C30_FirstStatusRecorded ==
    /\ [](\A i \in Reqs :
            req[i].pc \in {"mw_calls", "done"} =>
                /\ req[i].mw.statusCode =
                       IF req[i].w.wire = 0 THEN StatusOK ELSE req[i].w.wire
                /\ req[i].mw.headerWritten <=> Calls(req[i]) > 0)
    /\ [][\A i \in Reqs :
            req[i].pc = "mw_calls" /\ req'[i].pc = "mw_calls" /\ req'[i] # req[i] =>
                LET w == req[i].w
                    mw == req[i].mw
                IN  /\ \/ \E statusCode \in WriterStatuses :
                             /\ req'[i].w = WriteHeader(w, statusCode)
                             /\ IF Calls(req[i]) = 0
                                THEN req'[i].mw.statusCode = statusCode
                                ELSE req'[i].mw.statusCode = mw.statusCode
                       \/ /\ req'[i].w = Write(w, "handler output")
                          /\ req'[i].mw.statusCode = mw.statusCode
                       \/ /\ req'[i].w = [w EXCEPT !.hconn = TRUE]
                          /\ req'[i].mw = mw]_vars

\* A wrapper whose first writing call was WriteHeader(401) and which was
\* then called with Write and a second WriteHeader: it holds 401; and one
\* whose first writing call was Write and which was then called with
\* WriteHeader: it holds 200.
C30_Witness ==
    \E i, j \in Reqs :
        /\ req[i].w.wire = StatusUnauthorized /\ req[i].w.writes = 2
        /\ Len(req[i].w.body) = 1
        /\ req[i].mw.statusCode = StatusUnauthorized
        /\ req[j].w.wire = StatusOK /\ req[j].w.writes = 1
        /\ Len(req[j].w.body) = 1
        /\ req[j].mw.statusCode = StatusOK /\ req[j].mw.headerWritten
        /\ req[j].pc = "done"

\* C31: every request that has entered rateLimit's handler leaves it with
\* a decision, every sweep that woke up gets back to its sleep, and the
\* lock, once taken, is released; whether or not the stages after
\* rateLimit ever finish.
C31_LockReleased ==
    /\ \A i \in 1..MaxChain :
          req[i].pc \in RLPcs ~> (req[i].pc \notin RLPcs /\ req[i].decision # "none")
    /\ sweeper.pc \in {"lock", "scan"} ~> sweeper.pc = "sleep"
    /\ mu ~> ~mu

\* A sweep holds the lock, a request waits in mu.Lock(), and the route
\* handler of an admitted request has panicked and was not yet recovered.
C31_Witness ==
    /\ mu /\ sweeper.pc = "scan"
    /\ \E i, j \in Reqs :
          /\ req[i].pc = "rl_lock"
          /\ req[j].pc = "rp_recover" /\ req[j].decision = "admit"

\* The limiter that the decisions k.. of L leave behind, starting from lim.
RECURSIVE ReplayLim(_, _, _)
ReplayLim(L, k, lim) ==
    IF k > Len(L) THEN lim
    ELSE ReplayLim(L, k + 1,
                   Allow(IF L[k].fresh THEN NewLimiter(config.rps, config.burst)
                                       ELSE lim, L[k].at).lim)

\* Request i panics in its route handler, or its panic is recovered.
PanicStep(i) == StepOf(i) /\ (req'[i].pc = "rp_recover" \/ req[i].pc = "rp_recover")

\* C32: the panic of a route handler and its recovery leave the lock, the
\* registry and the decisions taken as they are; the lock is held only by
\* a request between Lock and Unlock, never by one that panicked; every
\* bucket is what the decisions taken on it make of it, the debit of a
\* request that panicked later included; and every decision is the one the
\* bucket gives, whichever of the earlier requests panicked.
C32_PanicIsolated ==
    /\ [][\A i \in Reqs : PanicStep(i) => UNCHANGED <<mu, clients, log, sweeper>>]_vars
    /\ [](mu => Holders # {})
    /\ [](\A i \in Reqs : req[i].panicAt # "" =>
            /\ i \notin Holders
            /\ \E k \in 1..Len(log) : log[k].by = i /\ log[k].ok)
    /\ [](\A ip \in IPs :
            LET L == Decisions(ip)
                new == NewLimiter(config.rps, config.burst)
            IN  /\ Replays(L, 1, new)
                /\ ip \in DOMAIN clients => clients[ip].limiter = ReplayLim(L, 1, new))

\* On a bucket of one token: the handler of the admitted request panicked
\* and was recovered (500), the lock is free, and the request of the same
\* identity decided after it, at the same time, was denied: the debit stands.
C32_Witness ==
    \E i, j \in Reqs :
        /\ config.burst = 1
        /\ Len(log) = 2 /\ log[1].by = i /\ log[2].by = j
        /\ log[1].ip = log[2].ip /\ log[1].at = log[2].at
        /\ req[i].panicAt = "router" /\ req[i].recovered = 1 /\ req[i].pc = "done"
        /\ req[i].w.wire = StatusInternalServerError
        /\ ~log[2].ok /\ req[j].pc = "done"
        /\ ~mu
        /\ clients[log[1].ip].limiter.tokens = 0

\* The inner chain of metrics panicked for request r: a panic went through
\* the handler of metrics, no recoverPanic standing between the two.
InnerPanicked(r) ==
    /\ r.metered /\ r.panicAt # ""
    /\ ~(0 < StageAt("metrics") /\ StageAt("metrics") < StageAt("recoverPanic"))

\* Request r is counted as received and the handler of metrics has not
\* reached its totalResponsesSent.Add(1): r is with the inner chain.
InInnerChain(r) ==
    /\ r.metered /\ ~InnerPanicked(r)
    /\ r.pc \notin {"mx_status", "mx_time", "done"}

C34_ServeReturns ==
    /\ [](serving.main = "returned" /\ serving.ret = "nil" =>
            /\ serving.caught \in Signals
            /\ serving.shutdown = "nil"
            /\ serving.las = "ErrServerClosed"
            /\ serving.sig = "done")
    /\ [](serving.las = "other" =>
            /\ serving.main \in {"check", "returned", "killed"}
            /\ serving.main = "returned" => serving.ret = "other")
    /\ [][serving.main = "check" /\ serving.las = "other" /\ serving'.main = "returned" =>
            serving'.ret = "other"]_vars
    /\ [](serving.main = "returned" /\ serving.las = "ErrServerClosed" =>
            /\ serving.sig = "done"
            /\ serving.shutdown \in {"nil", "DeadlineExceeded"}
            /\ serving.ret = serving.shutdown)

\* C34 as stated: whenever Shutdown has returned an error, the error that
\* serve() then returns is that one, whatever ListenAndServe had reported.
C34_ShutdownErrorAlwaysReturned ==
    [][serving.shutdown = "DeadlineExceeded" /\ serving.main # "returned"
         /\ serving'.main = "returned" =>
            serving'.ret = serving.shutdown]_vars

\* serve() has returned the error of Shutdown after a SIGTERM, a second
\* signal having come while the shutdown was under way.
C34_Witness ==
    /\ serving.main = "returned" /\ serving.ret = "DeadlineExceeded"
    /\ serving.las = "ErrServerClosed"
    /\ serving.caught = "SIGTERM"
    /\ serving.signals = 2

\* The delivery attempts of the call that failed.
Failed == {k \in 1..Len(mailer.errs) : mailer.errs[k] # "nil"}

\* C35: Send never makes more than 3 delivery attempts; an attempt that
\* succeeds is the last one and Send has returned nil with it; a call that
\* has returned after 3 failed attempts has returned the error of the
\* third, and no call returns a delivery error after fewer; and a call in
\* which a step of building the message failed has returned that step's
\* error with no delivery attempt made.
C35_SendAttempts ==
    /\ Len(mailer.errs) <= 3
    /\ \A k \in 1..Len(mailer.errs) :
          mailer.errs[k] = "nil" =>
              /\ k = Len(mailer.errs)
              /\ mailer.pc = "returned"
              /\ mailer.ret = "nil"
    /\ mailer.pc = "returned" /\ Cardinality(Failed) = 3 =>
          mailer.ret = mailer.errs[3]
    /\ mailer.pc = "returned" /\ mailer.ret \in DialErrors =>
          Cardinality(Failed) = 3
    /\ mailer.pc = "returned" /\ mailer.ret = "nil" =>
          mailer.errs # <<>> /\ mailer.errs[Len(mailer.errs)] = "nil"
    /\ mailer.pc = "returned" /\ mailer.build < Len(BuildSteps) =>
          /\ mailer.errs = <<>>
          /\ mailer.ret = BuildSteps[mailer.build + 1]
    /\ mailer.errs # <<>> => mailer.build = Len(BuildSteps)

\* Three attempts have failed with three different errors and Send has
\* returned the third.
C35_Witness ==
    /\ mailer.pc = "returned"
    /\ mailer.errs = <<"timeout", "refused", "auth">>
    /\ mailer.ret = "auth"

====
